---------------------------- MODULE Spec2Model ----------------------------
(***************************************************************************)
(* Model of the chat hooks of haloaistud/Thursdax-AI:                      *)
(*   - hook A: useChat of src/src/hooks/useChat.ts                         *)
(*   - hook B: useChat of src/unnamed/part_000                             *)
(*   - the stream decoder of hook A (read loop and end-of-stream flush)    *)
(*   - calculateBackoffDelay of hook A                                     *)
(*                                                                         *)
(* JavaScript strings are sequences of one-character strings, so that      *)
(* split, startsWith, slice and trim are computed, not assumed.            *)
(* A JavaScript async function is a process whose program counter stops    *)
(* at each await: "fetch" (await fetch), "read" (await reader.read()),     *)
(* "backoff" (await the timer promise), and "done" once it has returned.   *)
(* Everything between two awaits is one atomic step (single-threaded       *)
(* event loop; React applies functional setState updaters in order).       *)
(***************************************************************************)
EXTENDS Integers, Sequences, FiniteSets, TLC

(***************************************************************************)
(* Bounds of the model.                                                    *)
(***************************************************************************)
\* number of sendMessage calls per run
MaxSends == 2
\* maxRetries option is drawn from 0..MaxRetriesBound
MaxRetriesBound == 2
\* number of clearMessages, deleteMessage and editMessage calls per run
MaxMutations == 1
\* attempt numbers checked for the backoff delay are 0..MaxAttempt
MaxAttempt == 3
\* Math.random() is k / 2^RandomBits for k in 0..2^RandomBits-1, or
RandomBits == 2
\* one of the NearOne largest doubles below 1: 1 - j * 2^-53 for j in 1..NearOne
NearOne == 2
\* a storage quota: the longest text the cache slot accepts, in characters
QuotaChars == 60
\* number of connect() calls and of disconnect() calls of a live session
MaxConnects == 2
MaxDisconnects == 2
\* message polls whose fetch is pending at one time
MaxPolls == 1
\* ids of the model messages the message endpoint lists: 1..MaxMessageId
MaxMessageId == 2

(***************************************************************************)
(* Strings.                                                                *)
(***************************************************************************)
NL == "\n"

WhiteSpace == {" ", NL, "\r", "\t"}

RECURSIVE Concat(_)
\* s1 + s2 + ... for a sequence of strings
Concat(ss) == IF ss = <<>> THEN <<>> ELSE Head(ss) \o Concat(Tail(ss))

\* String.prototype.startsWith
StartsWith(s, p) == Len(s) >= Len(p) /\ SubSeq(s, 1, Len(p)) = p

\* String.prototype.slice(n) for n >= 0
Slice(s, n) == SubSeq(s, n + 1, Len(s))

RECURSIVE TrimLeft(_)
TrimLeft(s) == IF s # <<>> /\ Head(s) \in WhiteSpace THEN TrimLeft(Tail(s)) ELSE s

RECURSIVE TrimRight(_)
TrimRight(s) ==
    IF s # <<>> /\ s[Len(s)] \in WhiteSpace
    THEN TrimRight(SubSeq(s, 1, Len(s) - 1))
    ELSE s

\* String.prototype.trim
Trim(s) == TrimRight(TrimLeft(s))

RECURSIVE SplitFrom(_, _, _)
\* the pieces of s between occurrences of sep, cur being the piece under way
SplitFrom(s, sep, cur) ==
    IF s = <<>> THEN <<cur>>
    ELSE IF Head(s) = sep THEN <<cur>> \o SplitFrom(Tail(s), sep, <<>>)
    ELSE SplitFrom(Tail(s), sep, Append(cur, Head(s)))

\* String.prototype.split(sep) for a one-character separator: never empty
Split(s, sep) == SplitFrom(s, sep, <<>>)

(***************************************************************************)
(* The stream decoder of hook A.                                           *)
(***************************************************************************)
DataPrefix == <<"d", "a", "t", "a", ":", " ">>

ContentOpen == <<"{", "\"", "c", "o", "n", "t", "e", "n", "t", "\"", ":", "\"">>

ContentClose == <<"\"", "}">>

\* JSON.parse(s).content for the records the endpoint sends: {"content":"..."}
\* with surrounding white space allowed and no quote or backslash in the text.
\* ok is FALSE when JSON.parse throws or the value has no such content field;
\* both end the same way in the decoder: no fragment.
JsonContent(s) ==
    LET t == Trim(s)
        n == Len(t)
        lo == Len(ContentOpen)
        lc == Len(ContentClose)
        mid == SubSeq(t, lo + 1, n - lc)
    IN  IF /\ n >= lo + lc
           /\ SubSeq(t, 1, lo) = ContentOpen
           /\ SubSeq(t, n - lc + 1, n) = ContentClose
           /\ \A i \in 1..Len(mid) : mid[i] \notin {"\"", "\\"}
        THEN [ok |-> TRUE, content |-> mid]
        ELSE [ok |-> FALSE, content |-> <<>>]

\* the fragments one parsed payload contributes: if (data.content) { ... }
PayloadFragments(payload) ==
    LET data == JsonContent(payload)
    IN  IF data.ok /\ data.content # <<>> THEN <<data.content>> ELSE <<>>

\* a data line whose remainder does not parse giving its raw text
LineFragmentsRaw(line) ==
    IF StartsWith(line, DataPrefix)
    THEN IF JsonContent(Slice(line, Len(DataPrefix))).ok
         THEN PayloadFragments(Slice(line, Len(DataPrefix)))
         ELSE <<Slice(line, Len(DataPrefix))>>
    ELSE <<>>

\* one complete line of the read loop
LineFragments(line) ==
    IF StartsWith(line, DataPrefix)
    THEN PayloadFragments(Slice(line, Len(DataPrefix)))
    ELSE <<>>

RECURSIVE LinesFragments(_)
\* for (const line of lines)
LinesFragments(lines) ==
    IF lines = <<>> THEN <<>>
    ELSE LineFragments(Head(lines)) \o LinesFragments(Tail(lines))

\* lines.pop() || '' dropping the partial line instead of keeping it
PoppedLineDropped(lines) == <<>>

\* streamBufferRef.current = lines.pop() || ''
PoppedLine(lines) == lines[Len(lines)]

\* the body of the read loop for one chunk: the new buffer and the fragments
ProcessChunk(buffer, chunk) ==
    LET lines == Split(buffer \o chunk, NL)
    IN  [buffer |-> PoppedLine(lines),
         frags |-> LinesFragments(SubSeq(lines, 1, Len(lines) - 1))]

\* the flush after the loop: no prefix test, the first 6 characters are cut
FlushBuffer(buffer) ==
    IF Trim(buffer) # <<>>
    THEN PayloadFragments(Slice(buffer, Len(DataPrefix)))
    ELSE <<>>

RECURSIVE DecodeFrom(_, _)
\* the fragments of a whole body given as its chunks, from a given buffer
DecodeFrom(buffer, chunks) ==
    IF chunks = <<>> THEN FlushBuffer(buffer)
    ELSE LET r == ProcessChunk(buffer, Head(chunks))
         IN  r.frags \o DecodeFrom(r.buffer, Tail(chunks))

(***************************************************************************)
(* Response bodies used by the model.                                      *)
(***************************************************************************)
\* one frame: data: {"content":"<c>"}
Frame(c) == DataPrefix \o ContentOpen \o c \o ContentClose

TxtOK == <<"O", "K">>

TxtHi == <<"H", "i">>

TxtThere == <<" ", "t", "h", "e", "r", "e">>

TxtBang == <<"!">>


\* the body of the scenario "OK": one frame in one chunk
BodyOK == <<Frame(TxtOK) \o <<NL>>>>

\* the body of the scenario "Hi there!": two frames in three chunks, the first
\* frame cut inside its text
BodyHiThere ==
    <<DataPrefix \o ContentOpen \o TxtHi,
      TxtThere \o ContentClose \o <<NL>>,
      Frame(TxtBang) \o <<NL>>>>

\* the response bodies the endpoint may send in the hooks' model
Bodies == {BodyOK, BodyHiThere}

\* the contents sendMessage is called with
Hello == <<"h", "e", "l", "l", "o">>

Contents == {Hello}

(***************************************************************************)
(* State.                                                                  *)
(***************************************************************************)
VARIABLES
    hook,               \* which hook runs: "A" (useChat.ts), "B" (part_000)
    endpointBody,       \* the chunks the endpoint sends as a 200 response
    maxRetries,         \* the maxRetries option
    messages,           \* state.messages
    isLoading,          \* state.isLoading
    isStreaming,        \* state.isStreaming (hook B)
    error,              \* state.error
    retryCount,         \* state.retryCount (hook A)
    retryCountRef,      \* retryCountRef.current (hook B)
    abortControllerRef, \* abortControllerRef.current: a controller or Null
    retryTimeoutRef,    \* retryTimeoutRef.current (hook A): a timer or Null
    timers,             \* the timers set and neither fired nor cleared (hook A)
    streamBufferRef,    \* streamBufferRef.current (hook A)
    ex,                 \* the sendMessage calls: one async process each
    sends,              \* how many times sendMessage was called
    mutations,          \* how many times the messages were cleared,
                        \* deleted from or edited by the caller
    dec,                \* the decoder run alone on one text
    bk,                 \* one evaluation of calculateBackoffDelay
    localStorage,       \* what localStorage holds under the cache key:
                        \* <<>> for nothing, <<item>> for a text
    quota,              \* the longest text setItem accepts: <<n>>, or Null
                        \* for no limit
    uncaught,           \* an exception left a handler or an effect uncaught
    cs,                 \* the mount effects and the cache functions run alone
    live                \* the useLiveSession hook: its state, refs, timers
                        \* and connect() and disconnect() calls

vars ==
    <<hook, endpointBody, maxRetries, messages, isLoading, isStreaming, error, retryCount,
      retryCountRef, abortControllerRef, retryTimeoutRef, timers,
      streamBufferRef, ex, sends, mutations, dec, bk, localStorage, quota,
      uncaught, cs, live>>

\* null, for error (string | null)
NoError == "null"

\* null, for the refs holding a controller or a timer
Null == <<>>

Exchanges == 1..MaxSends

\* a sendMessage call not made yet
NotStarted ==
    [pc |-> "idle", attempt |-> 0, signal |-> Null, aborted |-> FALSE,
     body |-> <<>>, acc |-> <<>>, fetches |-> 0, all429 |-> TRUE, scr |-> 0,
     alone |-> TRUE, cib |-> -1, ok |-> FALSE, hadError |-> FALSE]

\* Date.now() as a logical clock: the number of sendMessage, clear, delete
\* and edit calls that changed the state so far; a call reads the clock
\* before it is counted, so it reads DateNow + 1
DateNow == sends + mutations

\* ChatMessage / Message; isStreaming FALSE stands for false and for not set:
\* hook A never sets the field, hook B sets it on assistant messages only
Msg(id, role, content, streaming, timestamp) ==
    [id |-> id, role |-> role, content |-> content, isStreaming |-> streaming,
     timestamp |-> timestamp]

DigitChars == <<"0", "1", "2", "3", "4", "5", "6", "7", "8", "9">>

\* the ids are strings: a letter for the role and the number of the call
UserId(e) == <<"u", DigitChars[e + 1]>>

AssistantId(e) == <<"a", DigitChars[e + 1]>>

(***************************************************************************)
(* JSON.stringify of the messages and JSON.parse of a cached text. A       *)
(* parsed value is a record tagged by its type. The texts used hold no     *)
(* \u escape, and numbers are non-negative integers in decimal digits.     *)
(***************************************************************************)
IsDigit(c) == \E d \in 1..10 : DigitChars[d] = c

DigitValue(c) == (CHOOSE d \in 1..10 : DigitChars[d] = c) - 1

RECURSIVE NumberText(_)
\* String(n) for a natural number
NumberText(n) ==
    IF n < 10 THEN <<DigitChars[n + 1]>>
    ELSE NumberText(n \div 10) \o <<DigitChars[(n % 10) + 1]>>

\* the escapes with the line feed written as it is
EscapeOfQuotesOnly(c) ==
    CASE c = "\"" -> <<"\\", "\"">>
      [] c = "\\" -> <<"\\", "\\">>
      [] OTHER    -> <<c>>

\* the escape sequence JSON.stringify writes for a character
EscapeOf(c) ==
    CASE c = "\"" -> <<"\\", "\"">>
      [] c = "\\" -> <<"\\", "\\">>
      [] c = NL   -> <<"\\", "n">>
      [] c = "\r" -> <<"\\", "r">>
      [] c = "\t" -> <<"\\", "t">>
      [] OTHER    -> <<c>>

\* the escape of the character at position j of s, nothing past the end
EscapeAt(s, j) == IF j <= Len(s) THEN EscapeOf(s[j]) ELSE <<>>

RECURSIVE EscapedFrom(_, _)
\* the characters of s from position i, each with its escape, eight at a time
EscapedFrom(s, i) ==
    IF i > Len(s) THEN <<>>
    ELSE EscapeAt(s, i) \o EscapeAt(s, i + 1) \o EscapeAt(s, i + 2)
            \o EscapeAt(s, i + 3) \o EscapeAt(s, i + 4) \o EscapeAt(s, i + 5)
            \o EscapeAt(s, i + 6) \o EscapeAt(s, i + 7) \o EscapedFrom(s, i + 8)

\* the characters JSON.stringify writes as an escape sequence
NeedEscape == {"\"", "\\", NL, "\r", "\t"}

\* the characters of s, each with its escape: s itself when none has one
Escaped(s) ==
    IF \A j \in 1..Len(s) : s[j] \notin NeedEscape THEN s
    ELSE EscapedFrom(s, 1)

\* JSON.stringify of a string
Quoted(s) == <<"\"">> \o Escaped(s) \o <<"\"">>

KeyId == <<"i", "d">>

KeyRole == <<"r", "o", "l", "e">>

KeyContent == <<"c", "o", "n", "t", "e", "n", "t">>

KeyTimestamp == <<"t", "i", "m", "e", "s", "t", "a", "m", "p">>

KeyIsStreaming == <<"i", "s", "S", "t", "r", "e", "a", "m", "i", "n", "g">>

TextUser == <<"u", "s", "e", "r">>

TextAssistant == <<"a", "s", "s", "i", "s", "t", "a", "n", "t">>

TextTrue == <<"t", "r", "u", "e">>

TextFalse == <<"f", "a", "l", "s", "e">>

TextNull == <<"n", "u", "l", "l">>

RoleText(role) == IF role = "user" THEN TextUser ELSE TextAssistant

Member(key, valueText) == Quoted(key) \o <<":">> \o valueText

\* JSON.stringify of one message: the keys in the order the object got them.
\* Hook A: id, role, content, timestamp (addMessage). Hook B: id, content,
\* role, timestamp, and isStreaming on the assistant messages (sendMessage;
\* the spreads of the later updates keep the order).
StringifyMessage(h, m) ==
    LET id == Member(KeyId, Quoted(m.id))
        role == Member(KeyRole, Quoted(RoleText(m.role)))
        content == Member(KeyContent, Quoted(m.content))
        timestamp == Member(KeyTimestamp, NumberText(m.timestamp))
        streaming ==
            IF h = "B" /\ m.role = "assistant"
            THEN <<",">> \o Member(KeyIsStreaming,
                                   IF m.isStreaming THEN TextTrue ELSE TextFalse)
            ELSE <<>>
    IN  <<"{">> \o (IF h = "A"
                    THEN id \o <<",">> \o role \o <<",">> \o content
                    ELSE id \o <<",">> \o content \o <<",">> \o role)
                \o <<",">> \o timestamp \o streaming \o <<"}">>

RECURSIVE StringifyRest(_, _)
StringifyRest(h, msgs) ==
    IF msgs = <<>> THEN <<>>
    ELSE <<",">> \o StringifyMessage(h, Head(msgs)) \o StringifyRest(h, Tail(msgs))

\* JSON.stringify(messages)
Stringify(h, msgs) ==
    IF msgs = <<>> THEN <<"[", "]">>
    ELSE <<"[">> \o StringifyMessage(h, Head(msgs))
                 \o StringifyRest(h, Tail(msgs)) \o <<"]">>

JNull == [t |-> "null"]

JBool(b) == [t |-> "bool", v |-> b]

JNum(n) == [t |-> "num", v |-> n]

JStr(s) == [t |-> "str", v |-> s]

JArr(a) == [t |-> "arr", v |-> a]

JObj(members) == [t |-> "obj", v |-> members]

\* JSON.parse throws SyntaxError
SyntaxError == [ok |-> FALSE, v |-> JNull, next |-> 0]

Parsed(v, next) == [ok |-> TRUE, v |-> v, next |-> next]

RECURSIVE SkipWs(_, _)
SkipWs(s, i) ==
    IF i <= Len(s) /\ s[i] \in WhiteSpace THEN SkipWs(s, i + 1) ELSE i

\* the character an escape sequence stands for, <<>> for an unknown one
Unescape(c) ==
    CASE c = "\"" -> <<"\"">>
      [] c = "\\" -> <<"\\">>
      [] c = "/"  -> <<"/">>
      [] c = "n"  -> <<NL>>
      [] c = "r"  -> <<"\r">>
      [] c = "t"  -> <<"\t">>
      [] OTHER    -> <<>>

\* the number of backslashes right before position k of a string whose
\* first character is at position lo
RunBefore(s, lo, k) ==
    CHOOSE n \in 0..(k - lo) :
        /\ \A j \in (k - n)..(k - 1) : s[j] = "\\"
        /\ k - n = lo \/ s[k - n - 1] # "\\"

\* the character at position k is the second one of an escape sequence
Escapee(s, lo, k) == RunBefore(s, lo, k) % 2 = 1

\* the least number of a set of positions, 0 for the empty set
Least(q) == IF q = {} THEN 0 ELSE CHOOSE k \in q : \A j \in q : k <= j

\* the position of the first quote that no backslash escapes among the 32
\* characters from position i; 0 when there is none
QuoteIn(s, lo, i) ==
    Least({k \in i..(IF i + 31 < Len(s) THEN i + 31 ELSE Len(s)) :
              s[k] = "\"" /\ ~Escapee(s, lo, k)})

\* the position found, or else the one found further on
FirstOf(found, further) == IF found # 0 THEN found ELSE further

RECURSIVE ClosingQuote(_, _, _)
\* the position of the first quote from i that no backslash escapes; 0 when
\* the text ends before it
ClosingQuote(s, lo, i) ==
    IF i > Len(s) THEN 0
    ELSE FirstOf(QuoteIn(s, lo, i), ClosingQuote(s, lo, i + 32))

\* what the character at position j gives to the value of the string that
\* ends before position c
Piece(s, lo, j, c) ==
    IF j >= c THEN <<>>
    ELSE IF Escapee(s, lo, j) THEN Unescape(s[j])
    ELSE IF s[j] = "\\" THEN <<>>
    ELSE <<s[j]>>

RECURSIVE Unescaped(_, _, _, _)
\* the value of the characters at positions a..c-1, eight at a time
Unescaped(s, lo, a, c) ==
    IF a >= c THEN <<>>
    ELSE Piece(s, lo, a, c) \o Piece(s, lo, a + 1, c) \o Piece(s, lo, a + 2, c)
            \o Piece(s, lo, a + 3, c) \o Piece(s, lo, a + 4, c)
            \o Piece(s, lo, a + 5, c) \o Piece(s, lo, a + 6, c)
            \o Piece(s, lo, a + 7, c) \o Unescaped(s, lo, a + 8, c)

\* the string whose characters are at positions lo..c-1, c being the position
\* of its closing quote (0: not closed): SyntaxError when it is not closed,
\* holds an unknown escape or a control character as it is
CharsTo(s, lo, c) ==
    IF c = 0 THEN SyntaxError
    ELSE IF \E j \in lo..(c - 1) :
               \/ s[j] \in {NL, "\r", "\t"}
               \/ Escapee(s, lo, j) /\ Unescape(s[j]) = <<>>
         THEN SyntaxError
    ELSE IF \A j \in lo..(c - 1) : s[j] # "\\"
         THEN Parsed(JStr(SubSeq(s, lo, c - 1)), c + 1)
    ELSE Parsed(JStr(Unescaped(s, lo, lo, c)), c + 1)

\* a string from the character after its opening quote
ParseChars(s, lo) == CharsTo(s, lo, ClosingQuote(s, lo, lo))

RECURSIVE ParseDigits(_, _, _)
ParseDigits(s, i, n) ==
    IF i <= Len(s) /\ IsDigit(s[i])
    THEN ParseDigits(s, i + 1, 10 * n + DigitValue(s[i]))
    ELSE Parsed(JNum(n), i)

\* a number: 0, or digits not starting with 0
ParseNumber(s, i) ==
    IF s[i] = "0" THEN Parsed(JNum(0), i + 1) ELSE ParseDigits(s, i, 0)

ParseLiteral(s, i, word, v) ==
    IF i + Len(word) - 1 <= Len(s) /\ SubSeq(s, i, i + Len(word) - 1) = word
    THEN Parsed(v, i + Len(word))
    ELSE SyntaxError

RECURSIVE ValueAt(_, _)
RECURSIVE ParseElements(_, _, _)
RECURSIVE ParseMembers(_, _, _)
\* the array or object opened at position i: empty when the character at
\* position j, the first after white space, closes it
Opened(s, i, j, close, empty) ==
    IF j <= Len(s) /\ s[j] = close THEN Parsed(empty, j + 1)
    ELSE IF close = "]" THEN ParseElements(s, i + 1, <<>>)
    ELSE ParseMembers(s, i + 1, <<>>)

\* a value whose first character is at position i
ValueAt(s, i) ==
    IF i > Len(s) THEN SyntaxError
    ELSE IF s[i] = "\"" THEN ParseChars(s, i + 1)
    ELSE IF IsDigit(s[i]) THEN ParseNumber(s, i)
    ELSE IF s[i] \in {"[", "{"}
         THEN Opened(s, i, SkipWs(s, i + 1), IF s[i] = "[" THEN "]" ELSE "}",
                     IF s[i] = "[" THEN JArr(<<>>) ELSE JObj(<<>>))
    ELSE IF s[i] = "t" THEN ParseLiteral(s, i, TextTrue, JBool(TRUE))
    ELSE IF s[i] = "f" THEN ParseLiteral(s, i, TextFalse, JBool(FALSE))
    ELSE IF s[i] = "n" THEN ParseLiteral(s, i, TextNull, JNull)
    ELSE SyntaxError

\* a value from position i0, white space skipped
ParseValue(s, i0) == ValueAt(s, SkipWs(s, i0))

\* after the elements acc: a comma and more elements, or the end of the array
ElementsNext(s, acc, j) ==
    IF j > Len(s) THEN SyntaxError
    ELSE IF s[j] = "," THEN ParseElements(s, j + 1, acc)
    ELSE IF s[j] = "]" THEN Parsed(JArr(acc), j + 1)
    ELSE SyntaxError

\* the element r parsed after the elements acc
ElementsAfter(s, acc, r) ==
    IF ~r.ok THEN SyntaxError
    ELSE ElementsNext(s, Append(acc, r.v), SkipWs(s, r.next))

\* the elements of an array from position i, acc being those parsed
ParseElements(s, i, acc) == ElementsAfter(s, acc, ParseValue(s, i))

\* after the members acc: a comma and more members, or the end of the object
MembersNext(s, acc, j) ==
    IF j > Len(s) THEN SyntaxError
    ELSE IF s[j] = "," THEN ParseMembers(s, j + 1, acc)
    ELSE IF s[j] = "}" THEN Parsed(JObj(acc), j + 1)
    ELSE SyntaxError

\* the value r parsed for the member of that name
MemberAfter(s, acc, name, r) ==
    IF ~r.ok THEN SyntaxError
    ELSE MembersNext(s, Append(acc, [k |-> name, v |-> r.v]), SkipWs(s, r.next))

\* the colon at position c after the name of a member, and its value
MemberValue(s, acc, name, c) ==
    IF c > Len(s) THEN SyntaxError
    ELSE IF s[c] # ":" THEN SyntaxError
    ELSE MemberAfter(s, acc, name, ParseValue(s, c + 1))

\* the name key parsed for a member
MemberColon(s, acc, key) ==
    IF ~key.ok THEN SyntaxError
    ELSE MemberValue(s, acc, key.v.v, SkipWs(s, key.next))

\* a member whose name opens at position k
MemberKey(s, acc, k) ==
    IF k > Len(s) THEN SyntaxError
    ELSE IF s[k] # "\"" THEN SyntaxError
    ELSE MemberColon(s, acc, ParseChars(s, k + 1))

\* the members of an object from position i, acc being those parsed
ParseMembers(s, i, acc) == MemberKey(s, acc, SkipWs(s, i))

\* the value r parsed from the whole text: only white space may follow it
Whole(text, r) ==
    IF r.ok /\ SkipWs(text, r.next) = Len(text) + 1
    THEN [ok |-> TRUE, v |-> r.v]
    ELSE [ok |-> FALSE, v |-> JNull]

\* JSON.parse(text): ok is FALSE when it throws
JsonParse(text) == Whole(text, ParseValue(text, 1))

\* obj[key] for a parsed object: the last member of that name, JNull standing
\* for undefined
Field(obj, key) ==
    LET at == {i \in 1..Len(obj.v) : obj.v[i].k = key}
    IN  IF at = {} THEN JNull
        ELSE obj.v[CHOOSE i \in at : \A j \in at : j <= i].v

\* the parsed value has the shape of a ChatMessage / Message
IsMessage(v) ==
    /\ v.t = "obj"
    /\ Field(v, KeyId).t = "str"
    /\ Field(v, KeyRole).t = "str"
    /\ Field(v, KeyRole).v \in {TextUser, TextAssistant}
    /\ Field(v, KeyContent).t = "str"
    /\ Field(v, KeyTimestamp).t = "num"
    /\ Field(v, KeyIsStreaming).t \in {"null", "bool"}

\* the parsed value is an array of messages
IsMessages(v) ==
    /\ v.t = "arr"
    /\ \A i \in 1..Len(v.v) : IsMessage(v.v[i])

\* a parsed message as a message of the state
MessageOf(v) ==
    Msg(Field(v, KeyId).v,
        IF Field(v, KeyRole).v = TextUser THEN "user" ELSE "assistant",
        Field(v, KeyContent).v,
        Field(v, KeyIsStreaming).t = "bool" /\ Field(v, KeyIsStreaming).v,
        Field(v, KeyTimestamp).v)

\* a parsed array of messages as state.messages
MessagesOf(v) == [i \in 1..Len(v.v) |-> MessageOf(v.v[i])]

(***************************************************************************)
(* The cache slot.                                                         *)
(***************************************************************************)
\* localStorage.setItem(key, text) throws (QuotaExceededError)
SetItemThrows(text) == quota # Null /\ Len(text) > quota[1]

\* what the slot holds after setItem(key, JSON.stringify(msgs)) of hook h: the
\* text is kept as the messages it was made of and written out by getItem
Item(h, msgs) == [h |-> h, msgs |-> msgs, text |-> <<>>]

\* a text that something else left in the slot
Raw(text) == [h |-> "raw", msgs |-> <<>>, text |-> text]

\* the text an item of the slot is
TextOf(item) ==
    IF item.h = "raw" THEN item.text ELSE Stringify(item.h, item.msgs)

\* localStorage.getItem(key): <<>> for null, or else the text
getItem(store) == IF store = <<>> THEN <<>> ELSE <<TextOf(store[1])>>

\* syncToLocalStorage with the exception of setItem thrown again
syncToLocalStorageRethrows(store, msgs) ==
    IF SetItemThrows(Stringify("A", msgs))
    THEN [store |-> store, threw |-> TRUE]
    ELSE [store |-> <<Item("A", msgs)>>, threw |-> FALSE]

\* hook A, syncToLocalStorage(messages) with enableLocalStorage true: the new
\* content of the slot, and whether an exception leaves the function
syncToLocalStorage(store, msgs) ==
    IF SetItemThrows(Stringify("A", msgs))
    THEN [store |-> store, threw |-> FALSE]
    ELSE [store |-> <<Item("A", msgs)>>, threw |-> FALSE]

\* hook B, saveToCache(messages)
saveToCache(store, msgs) ==
    IF SetItemThrows(Stringify("B", msgs))
    THEN [store |-> store, threw |-> FALSE]
    ELSE [store |-> <<Item("B", msgs)>>, threw |-> FALSE]

\* the parsed value, [] when JSON.parse threw
ParsedOrEmpty(parsedData) ==
    IF parsedData.ok THEN parsedData.v ELSE JArr(<<>>)

\* the value read from what getItem returned: [] when nothing or the empty
\* string is stored and when JSON.parse throws
ReadOrEmpty(cached) ==
    IF cached = <<>> THEN JArr(<<>>)
    ELSE IF cached[1] = <<>> THEN JArr(<<>>)
    ELSE ParsedOrEmpty(JsonParse(cached[1]))

\* hook B, loadFromCache(): the parsed value, [] when nothing or the empty
\* string is stored and when JSON.parse throws
loadFromCache(store) == ReadOrEmpty(getItem(store))

\* hook A, the value the mount effect leaves in state.messages: the parsed
\* value, the initial [] when nothing or the empty string is stored and when
\* JSON.parse throws
A_MountMessages(store) == ReadOrEmpty(getItem(store))

KeyLength == <<"l", "e", "n", "g", "t", "h">>

\* cachedMessages.length: a TypeError when the value is null, a number for an
\* array, a string and an object with such a member, undefined otherwise
LengthOf(v) ==
    IF v.t = "null" THEN [throws |-> TRUE, defined |-> FALSE, n |-> 0]
    ELSE IF v.t \in {"arr", "str"}
         THEN [throws |-> FALSE, defined |-> TRUE, n |-> Len(v.v)]
    ELSE IF v.t = "obj" /\ Field(v, KeyLength).t = "num"
         THEN [throws |-> FALSE, defined |-> TRUE, n |-> Field(v, KeyLength).v]
    ELSE [throws |-> FALSE, defined |-> FALSE, n |-> 0]

\* the step writes nothing to the slot
NoCacheWrite == UNCHANGED <<localStorage, uncaught>>

\* hook A: the step calls syncToLocalStorage(msgs)
A_Sync(msgs) ==
    LET w == syncToLocalStorage(localStorage, msgs)
    IN  /\ localStorage' = w.store
        /\ uncaught' = (uncaught \/ w.threw)

\* hook B: the step sets state.messages to msgs, and the effect on
\* [state.messages] calls saveToCache(msgs) after the render
B_Save(msgs) ==
    LET w == saveToCache(localStorage, msgs)
    IN  /\ localStorage' = w.store
        /\ uncaught' = (uncaught \/ w.threw)

(***************************************************************************)
(* Helpers shared by the two hooks.                                        *)
(***************************************************************************)
\* the timer an exchange of hook A is waiting for in its backoff
TimerOf(e) == <<e, ex[e].attempt>>

\* the exchange will still run: it waits for a fetch, a read, or a timer that
\* will fire (a cleared timer never resolves its promise)
Active(e) ==
    \/ ex[e].pc \in {"fetch", "read"}
    \/ ex[e].pc = "backoff" /\ (hook = "B" \/ TimerOf(e) \in timers)

\* the signal given to fetch was aborted: fetch and read reject with AbortError
SignalAborted(e) == ex[e].aborted

\* controller.abort(): the pending fetch or read of every exchange that was
\* given the controller's signal will reject. (A signal is never aborted when
\* fetch is called: hook A reads a ref that cancelRequest sets to null after
\* abort(), hook B makes a new controller for each attempt. So only the
\* exchanges waiting in fetch or read need to be marked.)
Abort(exs, controller) ==
    [x \in Exchanges |->
        IF /\ controller # Null
           /\ exs[x].pc \in {"fetch", "read"}
           /\ exs[x].signal = controller
        THEN [exs[x] EXCEPT !.aborted = TRUE]
        ELSE exs[x]]

\* observation: how far the outcomes of an exchange follow the scenario
\* "HTTP 500, then HTTP 200 with the body OK, read to its end"; -1 once they
\* left it
ScenarioStep(scr, fetches, what, body) ==
    IF scr = 0 /\ fetches = 1 /\ what = "500" THEN 1
    ELSE IF scr = 1 /\ fetches = 2 /\ what = "200" /\ body = BodyOK THEN 2
    ELSE IF scr = 2 /\ what = "chunk" THEN 2
    ELSE IF scr = 2 /\ what = "end" THEN 3
    ELSE -1

\* observation: the outcome of an await of an exchange
SeenBody(r, what, body) ==
    [r EXCEPT !.all429 = @ /\ what = "429",
              !.scr = ScenarioStep(@, r.fetches, what, body),
              !.ok = (what = "end")]

Seen(r, what) == SeenBody(r, what, <<>>)

\* an earlier sendMessage call that will not run again (it returned, or it
\* waits for a cleared timer): its locals and observations are dropped
Retired == [NotStarted EXCEPT !.pc = "retired"]

\* exchange e starts with record r; the exchanges it overlaps are marked
\* (observation), those that will not run again are retired
Started(exs, e, r) ==
    [x \in Exchanges |->
        IF x = e THEN [r EXCEPT !.alone = \A y \in Exchanges : ~Active(y)]
        ELSE IF Active(x) THEN [exs[x] EXCEPT !.alone = FALSE]
        ELSE IF exs[x].pc = "idle" THEN exs[x]
        ELSE Retired]

\* observation: cancelRequest was called; an exchange in its backoff keeps the
\* number of fetches it had issued
Cancelled(exs) ==
    [x \in Exchanges |->
        IF ~Active(x) THEN exs[x]
        ELSE [exs[x] EXCEPT !.all429 = FALSE,
                            !.scr = -1,
                            !.cib = IF exs[x].pc = "backoff" /\ @ < 0
                                    THEN exs[x].fetches ELSE @]]

(***************************************************************************)
(* Hook A: useChat of src/src/hooks/useChat.ts.                            *)
(***************************************************************************)
A_only == <<isStreaming, retryCountRef, mutations, hook, endpointBody,
           maxRetries, dec, bk, quota, cs, live>>

\* the catch block for an error that is not an AbortError: terminal
A_Catch(e, msg) ==
    /\ isLoading' = FALSE
    /\ error' = msg
    /\ retryCount' = 0
    /\ ex' = [ex EXCEPT ![e] = [Seen(@, msg) EXCEPT !.pc = "done"]]
    /\ UNCHANGED <<retryTimeoutRef, timers>>
    /\ NoCacheWrite

\* sendMessage(content) without the reset of error
A_SendMessageKeepsError(c) ==
    /\ hook = "A"
    /\ sends < MaxSends
    /\ LET e == sends + 1
       IN  /\ messages' = Append(messages, Msg(UserId(e), "user", c, FALSE, DateNow + 1))
           /\ isLoading' = TRUE
           /\ error' = error
           /\ abortControllerRef' = <<e>>
           /\ streamBufferRef' = <<>>
           /\ ex' = Started(ex, e, [NotStarted EXCEPT !.pc = "fetch",
                                                      !.signal = <<e>>,
                                                      !.fetches = 1,
                                                      !.hadError = (error # NoError)])
           /\ sends' = e
           /\ A_Sync(messages')
    /\ UNCHANGED <<retryCount, retryTimeoutRef, timers>>
    /\ UNCHANGED A_only

\* sendMessage(content) up to its first await, the fetch of attemptRequest(0)
A_SendMessage(c) ==
    /\ hook = "A"
    /\ sends < MaxSends
    /\ LET e == sends + 1
       IN  /\ messages' = Append(messages, Msg(UserId(e), "user", c, FALSE, DateNow + 1))
           /\ isLoading' = TRUE
           /\ error' = NoError
           /\ abortControllerRef' = <<e>>
           /\ streamBufferRef' = <<>>
           /\ ex' = Started(ex, e, [NotStarted EXCEPT !.pc = "fetch",
                                                      !.signal = <<e>>,
                                                      !.fetches = 1,
                                                      !.hadError = (error # NoError)])
           /\ sends' = e
           /\ A_Sync(messages')
    /\ UNCHANGED <<retryCount, retryTimeoutRef, timers>>
    /\ UNCHANGED A_only

\* fetch resolves with status 429
A_Fetch429(e) ==
    /\ hook = "A"
    /\ ex[e].pc = "fetch"
    /\ ~SignalAborted(e)
    /\ IF ex[e].attempt < maxRetries
       THEN /\ retryCount' = ex[e].attempt + 1
            /\ retryTimeoutRef' = TimerOf(e)
            /\ timers' = timers \cup {TimerOf(e)}
            /\ ex' = [ex EXCEPT ![e] = [Seen(@, "429") EXCEPT !.pc = "backoff"]]
            /\ UNCHANGED <<isLoading, error>>
            /\ NoCacheWrite
       ELSE A_Catch(e, "429")
    /\ UNCHANGED <<messages, abortControllerRef, streamBufferRef, sends>>
    /\ UNCHANGED A_only

\* fetch resolves with a status that is neither 2xx nor 429
A_FetchHttpError(e) ==
    /\ hook = "A"
    /\ ex[e].pc = "fetch"
    /\ ~SignalAborted(e)
    /\ A_Catch(e, "500")
    /\ UNCHANGED <<messages, abortControllerRef, streamBufferRef, sends>>
    /\ UNCHANGED A_only

\* fetch rejects with a network error (a TypeError, not an AbortError)
A_FetchNetworkError(e) ==
    /\ hook = "A"
    /\ ex[e].pc = "fetch"
    /\ ~SignalAborted(e)
    /\ A_Catch(e, "network")
    /\ UNCHANGED <<messages, abortControllerRef, streamBufferRef, sends>>
    /\ UNCHANGED A_only

\* fetch resolves with status 200 and a readable body
A_FetchOk(e) ==
    /\ hook = "A"
    /\ ex[e].pc = "fetch"
    /\ ~SignalAborted(e)
    /\ ex' = [ex EXCEPT ![e] = [SeenBody(@, "200", endpointBody) EXCEPT
                                    !.pc = "read",
                                    !.body = endpointBody,
                                                      !.acc = <<>>]]
    /\ UNCHANGED <<messages, isLoading, error, retryCount, abortControllerRef, retryTimeoutRef, timers, streamBufferRef, sends>>
    /\ UNCHANGED A_only
    /\ NoCacheWrite

\* reader.read() resolves with a chunk: one turn of the read loop
A_ReadChunk(e) ==
    /\ hook = "A"
    /\ ex[e].pc = "read"
    /\ ~SignalAborted(e)
    /\ ex[e].body # <<>>
    /\ LET r == ProcessChunk(streamBufferRef, Head(ex[e].body))
       IN  /\ streamBufferRef' = r.buffer
           /\ ex' = [ex EXCEPT ![e] = [Seen(@, "chunk") EXCEPT
                                           !.body = Tail(@),
                                           !.acc = @ \o Concat(r.frags)]]
    /\ UNCHANGED <<messages, isLoading, error, retryCount, abortControllerRef, retryTimeoutRef, timers, sends>>
    /\ UNCHANGED A_only
    /\ NoCacheWrite

\* reader.read() resolves with done: flush, add the assistant message, finish
A_ReadDone(e) ==
    /\ hook = "A"
    /\ ex[e].pc = "read"
    /\ ~SignalAborted(e)
    /\ ex[e].body = <<>>
    /\ LET assistantContent == ex[e].acc \o Concat(FlushBuffer(streamBufferRef))
       IN  /\ messages' =
                 IF assistantContent # <<>>
                 THEN Append(messages,
                             Msg(AssistantId(e), "assistant", assistantContent, FALSE,
                                 DateNow))
                 ELSE messages
           /\ IF assistantContent # <<>> THEN A_Sync(messages') ELSE NoCacheWrite
           /\ ex' = [ex EXCEPT ![e] = [Seen(@, "end") EXCEPT
                                           !.pc = "done",
                                           !.acc = assistantContent]]
    /\ isLoading' = FALSE
    /\ retryCount' = 0
    /\ error' = NoError
    /\ UNCHANGED <<abortControllerRef, retryTimeoutRef, timers,
                   streamBufferRef, sends>>
    /\ UNCHANGED A_only

\* reader.read() rejects with a network error
A_ReadFails(e) ==
    /\ hook = "A"
    /\ ex[e].pc = "read"
    /\ ~SignalAborted(e)
    /\ A_Catch(e, "network")
    /\ UNCHANGED <<messages, abortControllerRef, streamBufferRef, sends>>
    /\ UNCHANGED A_only

\* an AbortError handled as any other error
A_AbortedSetsError(e) ==
    /\ hook = "A"
    /\ ex[e].pc \in {"fetch", "read"}
    /\ SignalAborted(e)
    /\ A_Catch(e, "abort")
    /\ UNCHANGED <<messages, abortControllerRef, streamBufferRef, sends>>
    /\ UNCHANGED A_only

\* fetch or reader.read() rejects with an AbortError: the signal was aborted
A_Aborted(e) ==
    /\ hook = "A"
    /\ ex[e].pc \in {"fetch", "read"}
    /\ SignalAborted(e)
    /\ isLoading' = FALSE
    /\ ex' = [ex EXCEPT ![e] = [Seen(@, "abort") EXCEPT !.pc = "done"]]
    /\ UNCHANGED <<messages, error, retryCount, abortControllerRef,
                   retryTimeoutRef, timers, streamBufferRef, sends>>
    /\ UNCHANGED A_only
    /\ NoCacheWrite

\* the backoff timer fires: attemptRequest(currentRetry + 1) up to its fetch
A_TimerFires(e) ==
    /\ hook = "A"
    /\ ex[e].pc = "backoff"
    /\ TimerOf(e) \in timers
    /\ timers' = timers \ {TimerOf(e)}
    /\ ex' = [ex EXCEPT ![e].pc = "fetch",
                        ![e].attempt = @ + 1,
                        ![e].signal = abortControllerRef,
                        ![e].fetches = @ + 1]
    /\ UNCHANGED <<messages, isLoading, error, retryCount, abortControllerRef, retryTimeoutRef, streamBufferRef, sends>>
    /\ UNCHANGED A_only
    /\ NoCacheWrite

\* cancelRequest reporting the cancellation as an error
A_CancelRequestSetsError ==
    /\ hook = "A"
    /\ abortControllerRef' = Null
    /\ timers' = IF retryTimeoutRef # Null
                 THEN timers \ {retryTimeoutRef} ELSE timers
    /\ retryTimeoutRef' = Null
    /\ isLoading' = FALSE
    /\ error' = "cancelled"
    /\ ex' = Abort(Cancelled(ex), abortControllerRef)
    /\ UNCHANGED <<messages, retryCount, streamBufferRef, sends>>
    /\ UNCHANGED A_only
    /\ NoCacheWrite

\* cancelRequest without the clearTimeout
A_CancelRequestKeepsTimer ==
    /\ hook = "A"
    /\ abortControllerRef' = Null
    /\ retryTimeoutRef' = Null
    /\ isLoading' = FALSE
    /\ ex' = Abort(Cancelled(ex), abortControllerRef)
    /\ UNCHANGED <<messages, error, retryCount, timers, streamBufferRef, sends>>
    /\ UNCHANGED A_only
    /\ NoCacheWrite

\* cancelRequest()
A_CancelRequest ==
    /\ hook = "A"
    /\ abortControllerRef' = Null
    /\ timers' = IF retryTimeoutRef # Null
                 THEN timers \ {retryTimeoutRef} ELSE timers
    /\ retryTimeoutRef' = Null
    /\ isLoading' = FALSE
    /\ ex' = Abort(Cancelled(ex), abortControllerRef)
    /\ UNCHANGED <<messages, error, retryCount, streamBufferRef, sends>>
    /\ UNCHANGED A_only
    /\ NoCacheWrite

\* what hook A does after sendMessage, and cancelRequest
A_Steps ==
    \/ \E e \in Exchanges : A_Fetch429(e)
    \/ \E e \in Exchanges : A_FetchHttpError(e)
    \/ \E e \in Exchanges : A_FetchNetworkError(e)
    \/ \E e \in Exchanges : A_FetchOk(e)
    \/ \E e \in Exchanges : A_ReadChunk(e)
    \/ \E e \in Exchanges : A_ReadDone(e)
    \/ \E e \in Exchanges : A_ReadFails(e)
    \/ \E e \in Exchanges : A_Aborted(e)
    \/ \E e \in Exchanges : A_TimerFires(e)
    \/ A_CancelRequest

\* clearChat with the state reset alone, the cache not written
A_ClearChatNoSync ==
    /\ hook = "A"
    /\ mutations < MaxMutations
    /\ mutations' = mutations + 1
    /\ messages' = <<>>
    /\ isLoading' = FALSE
    /\ error' = NoError
    /\ retryCount' = 0
    /\ streamBufferRef' = <<>>
    /\ UNCHANGED <<abortControllerRef, retryTimeoutRef, timers, ex, sends>>
    /\ UNCHANGED <<isStreaming, retryCountRef, hook, endpointBody, maxRetries,
                   dec, bk, quota, cs, live>>
    /\ NoCacheWrite

\* clearChat(): updateMessages([]), the state reset, the buffer emptied
A_ClearChat ==
    /\ hook = "A"
    /\ mutations < MaxMutations
    /\ mutations' = mutations + 1
    /\ messages' = <<>>
    /\ isLoading' = FALSE
    /\ error' = NoError
    /\ retryCount' = 0
    /\ streamBufferRef' = <<>>
    /\ UNCHANGED <<abortControllerRef, retryTimeoutRef, timers, ex, sends>>
    /\ UNCHANGED <<isStreaming, retryCountRef, hook, endpointBody, maxRetries,
                   dec, bk, quota, cs, live>>
    /\ A_Sync(<<>>)

\* the caller's operations on the message list, hook A
A_Mutations == A_ClearChat

(***************************************************************************)
(* Hook B: useChat of src/unnamed/part_000.                                *)
(***************************************************************************)
B_only == <<retryCount, retryTimeoutRef, timers, streamBufferRef, hook,
            endpointBody, maxRetries, dec, bk, quota, cs, live>>

\* messages.map(msg => msg.id === id ? {...msg, isStreaming: false} : msg)
StopStreaming(msgs, id) ==
    [i \in 1..Len(msgs) |->
        IF msgs[i].id = id THEN [msgs[i] EXCEPT !.isStreaming = FALSE] ELSE msgs[i]]

\* messages.map(msg => msg.id === id ? {...msg, content, isStreaming: true} : msg)
SetStreamed(msgs, id, content) ==
    [i \in 1..Len(msgs) |->
        IF msgs[i].id = id
        THEN [msgs[i] EXCEPT !.content = content, !.isStreaming = TRUE]
        ELSE msgs[i]]

\* messages.map leaving the timestamp of the edited message as it was
SetContentKeepsTimestamp(msgs, id, content, now) ==
    [i \in 1..Len(msgs) |->
        IF msgs[i].id = id THEN [msgs[i] EXCEPT !.content = content] ELSE msgs[i]]

\* messages.map: content: newContent, timestamp: Date.now() on the message(s)
\* of that id
SetContent(msgs, id, content, now) ==
    [i \in 1..Len(msgs) |->
        IF msgs[i].id = id
        THEN [msgs[i] EXCEPT !.content = content, !.timestamp = now]
        ELSE msgs[i]]

\* prev.messages.filter((msg) => msg.id !== messageId)
FilterOut(msgs, messageId) ==
    LET F[i \in 0..Len(msgs)] ==
            IF i = 0 THEN <<>>
            ELSE IF msgs[i].id # messageId
                 THEN Append(F[i - 1], msgs[i]) ELSE F[i - 1]
    IN  F[Len(msgs)]

\* the catch block for an error that is not an AbortError, and what follows
\* it: a backoff wait below the retry limit, else the end of the loop and the
\* "All retries failed" update
B_Catch(e, msg) ==
    IF ex[e].attempt < maxRetries
    THEN /\ ex' = [ex EXCEPT ![e] = [Seen(@, msg) EXCEPT !.pc = "backoff"]]
         /\ UNCHANGED <<messages, isLoading, isStreaming, error, retryCountRef>>
         /\ NoCacheWrite
    ELSE /\ messages' = StopStreaming(messages, AssistantId(e))
         /\ isLoading' = FALSE
         /\ isStreaming' = FALSE
         /\ error' = msg
         /\ retryCountRef' = 0
         /\ ex' = [ex EXCEPT ![e] = [Seen(@, msg) EXCEPT !.pc = "done"]]
         /\ B_Save(messages')

\* sendMessage(content) with the placeholder appended before the user message
B_SendMessagePlaceholderFirst(c) ==
    /\ hook = "B"
    /\ sends < MaxSends
    /\ IF Trim(c) = <<>>
       THEN /\ UNCHANGED <<messages, isLoading, isStreaming, error, retryCountRef,
                          abortControllerRef, ex, sends>>
            /\ NoCacheWrite
       ELSE LET e == sends + 1
            IN  /\ messages' =
                      messages \o
                      <<Msg(AssistantId(e), "assistant", <<>>, TRUE, DateNow + 1),
                        Msg(UserId(e), "user", Trim(c), FALSE, DateNow + 1)>>
                /\ isLoading' = TRUE
                /\ error' = NoError
                /\ isStreaming' = TRUE
                /\ retryCountRef' = 0
                /\ abortControllerRef' = <<e, 0>>
                /\ ex' = Started(ex, e, [NotStarted EXCEPT !.pc = "fetch",
                                                           !.signal = <<e, 0>>,
                                                           !.fetches = 1,
                                                           !.hadError = (error # NoError)])
                /\ sends' = e
                /\ B_Save(messages')
    /\ UNCHANGED <<B_only, mutations>>

\* sendMessage(content) up to its first await, the fetch of attempt 0
B_SendMessage(c) ==
    /\ hook = "B"
    /\ sends < MaxSends
    /\ IF Trim(c) = <<>>
       THEN /\ UNCHANGED <<messages, isLoading, isStreaming, error, retryCountRef,
                          abortControllerRef, ex, sends>>
            /\ NoCacheWrite
       ELSE LET e == sends + 1
            IN  /\ messages' =
                      messages \o
                      <<Msg(UserId(e), "user", Trim(c), FALSE, DateNow + 1),
                        Msg(AssistantId(e), "assistant", <<>>, TRUE, DateNow + 1)>>
                /\ isLoading' = TRUE
                /\ error' = NoError
                /\ isStreaming' = TRUE
                /\ retryCountRef' = 0
                /\ abortControllerRef' = <<e, 0>>
                /\ ex' = Started(ex, e, [NotStarted EXCEPT !.pc = "fetch",
                                                           !.signal = <<e, 0>>,
                                                           !.fetches = 1,
                                                           !.hadError = (error # NoError)])
                /\ sends' = e
                /\ B_Save(messages')
    /\ UNCHANGED <<B_only, mutations>>

\* fetch resolves with status 429 with one more attempt than the limit allows
B_Fetch429OneMore(e) ==
    /\ hook = "B"
    /\ ex[e].pc = "fetch"
    /\ ~SignalAborted(e)
    /\ IF ex[e].attempt <= maxRetries
       THEN /\ ex' = [ex EXCEPT ![e] = [Seen(@, "429") EXCEPT !.pc = "backoff"]]
            /\ UNCHANGED <<messages, isLoading, isStreaming, error, retryCountRef>>
            /\ NoCacheWrite
       ELSE B_Catch(e, "429")
    /\ UNCHANGED <<abortControllerRef, sends>>
    /\ UNCHANGED <<B_only, mutations>>

\* fetch resolves with status 429: wait and continue below the retry limit,
\* else fall through to the !response.ok throw
B_Fetch429(e) ==
    /\ hook = "B"
    /\ ex[e].pc = "fetch"
    /\ ~SignalAborted(e)
    /\ IF ex[e].attempt < maxRetries
       THEN /\ ex' = [ex EXCEPT ![e] = [Seen(@, "429") EXCEPT !.pc = "backoff"]]
            /\ UNCHANGED <<messages, isLoading, isStreaming, error, retryCountRef>>
            /\ NoCacheWrite
       ELSE B_Catch(e, "429")
    /\ UNCHANGED <<abortControllerRef, sends>>
    /\ UNCHANGED <<B_only, mutations>>

\* fetch resolves with a status that is neither 2xx nor 429
B_FetchHttpError(e) ==
    /\ hook = "B"
    /\ ex[e].pc = "fetch"
    /\ ~SignalAborted(e)
    /\ B_Catch(e, "500")
    /\ UNCHANGED <<abortControllerRef, sends>>
    /\ UNCHANGED <<B_only, mutations>>

\* fetch rejects with a network error (a TypeError, not an AbortError)
B_FetchNetworkError(e) ==
    /\ hook = "B"
    /\ ex[e].pc = "fetch"
    /\ ~SignalAborted(e)
    /\ B_Catch(e, "network")
    /\ UNCHANGED <<abortControllerRef, sends>>
    /\ UNCHANGED <<B_only, mutations>>

\* fetch resolves with status 200 and a readable body
B_FetchOk(e) ==
    /\ hook = "B"
    /\ ex[e].pc = "fetch"
    /\ ~SignalAborted(e)
    /\ ex' = [ex EXCEPT ![e] = [SeenBody(@, "200", endpointBody) EXCEPT
                                    !.pc = "read",
                                    !.body = endpointBody,
                                                      !.acc = <<>>]]
    /\ UNCHANGED <<messages, isLoading, isStreaming, error, retryCountRef,
                   abortControllerRef, sends>>
    /\ UNCHANGED <<B_only, mutations>>
    /\ NoCacheWrite

\* reader.read() resolves with a chunk: the raw text is accumulated
B_ReadChunk(e) ==
    /\ hook = "B"
    /\ ex[e].pc = "read"
    /\ ~SignalAborted(e)
    /\ ex[e].body # <<>>
    /\ LET accumulatedContent == ex[e].acc \o Head(ex[e].body)
       IN  /\ messages' = SetStreamed(messages, AssistantId(e), accumulatedContent)
           /\ ex' = [ex EXCEPT ![e] = [Seen(@, "chunk") EXCEPT
                                           !.body = Tail(@),
                                           !.acc = accumulatedContent]]
    /\ UNCHANGED <<isLoading, isStreaming, error, retryCountRef,
                   abortControllerRef, sends>>
    /\ UNCHANGED <<B_only, mutations>>
    /\ B_Save(messages')

\* the completion without the update of the assistant message
B_ReadDoneKeepsFlag(e) ==
    /\ hook = "B"
    /\ ex[e].pc = "read"
    /\ ~SignalAborted(e)
    /\ ex[e].body = <<>>
    /\ isLoading' = FALSE
    /\ isStreaming' = FALSE
    /\ error' = NoError
    /\ retryCountRef' = 0
    /\ ex' = [ex EXCEPT ![e] = [Seen(@, "end") EXCEPT !.pc = "done"]]
    /\ UNCHANGED <<messages, abortControllerRef, sends>>
    /\ UNCHANGED <<B_only, mutations>>
    /\ B_Save(messages')

\* reader.read() resolves with done: mark streaming as complete
B_ReadDone(e) ==
    /\ hook = "B"
    /\ ex[e].pc = "read"
    /\ ~SignalAborted(e)
    /\ ex[e].body = <<>>
    /\ messages' = StopStreaming(messages, AssistantId(e))
    /\ isLoading' = FALSE
    /\ isStreaming' = FALSE
    /\ error' = NoError
    /\ retryCountRef' = 0
    /\ ex' = [ex EXCEPT ![e] = [Seen(@, "end") EXCEPT !.pc = "done"]]
    /\ UNCHANGED <<abortControllerRef, sends>>
    /\ UNCHANGED <<B_only, mutations>>
    /\ B_Save(messages')

\* reader.read() rejects with a network error
B_ReadFails(e) ==
    /\ hook = "B"
    /\ ex[e].pc = "read"
    /\ ~SignalAborted(e)
    /\ B_Catch(e, "network")
    /\ UNCHANGED <<abortControllerRef, sends>>
    /\ UNCHANGED <<B_only, mutations>>

\* fetch or reader.read() rejects with an AbortError: return
B_Aborted(e) ==
    /\ hook = "B"
    /\ ex[e].pc \in {"fetch", "read"}
    /\ SignalAborted(e)
    /\ ex' = [ex EXCEPT ![e] = [Seen(@, "abort") EXCEPT !.pc = "done"]]
    /\ UNCHANGED <<messages, isLoading, isStreaming, error, retryCountRef,
                   abortControllerRef, sends>>
    /\ UNCHANGED <<B_only, mutations>>
    /\ NoCacheWrite

\* the retry of part_000 with a fresh placeholder appended for each attempt
B_TimerFiresNewPlaceholder(e) ==
    /\ hook = "B"
    /\ ex[e].pc = "backoff"
    /\ retryCountRef' = ex[e].attempt + 1
    /\ abortControllerRef' = <<e, ex[e].attempt + 1>>
    /\ ex' = [ex EXCEPT ![e].pc = "fetch",
                        ![e].attempt = @ + 1,
                        ![e].signal = <<e, ex[e].attempt + 1>>,
                        ![e].fetches = @ + 1]
    /\ messages' = Append(messages, Msg(AssistantId(e), "assistant", <<>>, TRUE, DateNow))
    /\ UNCHANGED <<isLoading, isStreaming, error, sends>>
    /\ UNCHANGED <<B_only, mutations>>
    /\ B_Save(messages')

\* the backoff timer fires: the next turn of the retry loop up to its fetch
B_TimerFires(e) ==
    /\ hook = "B"
    /\ ex[e].pc = "backoff"
    /\ retryCountRef' = ex[e].attempt + 1
    /\ abortControllerRef' = <<e, ex[e].attempt + 1>>
    /\ ex' = [ex EXCEPT ![e].pc = "fetch",
                        ![e].attempt = @ + 1,
                        ![e].signal = <<e, ex[e].attempt + 1>>,
                        ![e].fetches = @ + 1]
    /\ UNCHANGED <<messages, isLoading, isStreaming, error, sends>>
    /\ UNCHANGED <<B_only, mutations>>
    /\ NoCacheWrite

\* cancelRequest()
B_CancelRequest ==
    /\ hook = "B"
    /\ IF abortControllerRef # Null
       THEN /\ isLoading' = FALSE
            /\ isStreaming' = FALSE
       ELSE UNCHANGED <<isLoading, isStreaming>>
    /\ ex' = Abort(Cancelled(ex), abortControllerRef)
    /\ UNCHANGED <<messages, error, retryCountRef, abortControllerRef, sends>>
    /\ UNCHANGED <<B_only, mutations>>
    /\ NoCacheWrite

\* clearMessages()
B_ClearMessages ==
    /\ hook = "B"
    /\ mutations < MaxMutations
    /\ mutations' = mutations + 1
    /\ messages' = <<>>
    /\ error' = NoError
    /\ UNCHANGED <<isLoading, isStreaming, retryCountRef, abortControllerRef, ex, sends>>
    /\ UNCHANGED B_only
    /\ LET w == saveToCache(<<>>, <<>>)
       IN  /\ localStorage' = w.store
           /\ uncaught' = (uncaught \/ w.threw)

\* deleteMessage(messageId)
B_DeleteMessage(id) ==
    /\ hook = "B"
    /\ mutations < MaxMutations
    /\ mutations' = mutations + 1
    /\ messages' = FilterOut(messages, id)
    /\ UNCHANGED <<isLoading, isStreaming, error, retryCountRef,
                   abortControllerRef, ex, sends>>
    /\ UNCHANGED B_only
    /\ B_Save(messages')

\* editMessage with no cache write after it
B_EditMessageNoSave(id, newContent) ==
    /\ hook = "B"
    /\ mutations < MaxMutations
    /\ mutations' = mutations + 1
    /\ messages' = SetContent(messages, id, newContent, DateNow + 1)
    /\ UNCHANGED <<isLoading, isStreaming, error, retryCountRef,
                   abortControllerRef, ex, sends>>
    /\ UNCHANGED B_only
    /\ NoCacheWrite

\* editMessage(messageId, newContent)
B_EditMessage(id, newContent) ==
    /\ hook = "B"
    /\ mutations < MaxMutations
    /\ mutations' = mutations + 1
    /\ messages' = SetContent(messages, id, newContent, DateNow + 1)
    /\ UNCHANGED <<isLoading, isStreaming, error, retryCountRef,
                   abortControllerRef, ex, sends>>
    /\ UNCHANGED B_only
    /\ B_Save(messages')

\* the ids deleteMessage and editMessage are called with: the messages of
\* the first sendMessage call, and an id no message has
MessageIds == {UserId(0), UserId(1), AssistantId(1)}

\* the contents editMessage is called with
Edits == {<<"e", "d">>}

\* what hook B does after sendMessage, and its other operations
B_Steps ==
    \/ \E e \in Exchanges : B_Fetch429(e)
    \/ \E e \in Exchanges : B_FetchHttpError(e)
    \/ \E e \in Exchanges : B_FetchNetworkError(e)
    \/ \E e \in Exchanges : B_FetchOk(e)
    \/ \E e \in Exchanges : B_ReadChunk(e)
    \/ \E e \in Exchanges : B_ReadDone(e)
    \/ \E e \in Exchanges : B_ReadFails(e)
    \/ \E e \in Exchanges : B_Aborted(e)
    \/ \E e \in Exchanges : B_TimerFires(e)
    \/ B_CancelRequest

\* the caller's operations on the message list, hook B
B_Mutations ==
    \/ B_ClearMessages
    \/ \E id \in MessageIds : B_DeleteMessage(id)
    \/ \E id \in MessageIds, c \in Edits : B_EditMessage(id, c)

(***************************************************************************)
(* The two hooks: the options and the hook are chosen at mount.            *)
(***************************************************************************)
\* the connect() and disconnect() calls of a live session (useLiveSession.tsx),
\* which is not run in this specification
Connects == 1..MaxConnects
Disconnects == 1..MaxDisconnects

\* the hook after its first render: no call made yet
LiveIdle ==
    [status |-> "disconnected", errorMsg |-> NoError, isAiSpeaking |-> FALSE,
     audioCtxRef |-> Null, micStreamRef |-> Null, analyserRef |-> Null,
     closed |-> {}, pollRef |-> Null, intervals |-> {},
     lastModelMessageId |-> 0, polls |-> 0, timeouts |-> 0,
     conn |-> [c \in Connects |-> "idle"],
     disc |-> [d \in Disconnects |-> "idle"]]

\* the decoder and the backoff function are not run in this specification
\* the cache functions are not run alone
CsIdle ==
    [pc |-> "off", payload |-> <<>>, state |-> JArr(<<>>), s |-> <<>>,
     loaded |-> JArr(<<>>)]

DecIdle ==
    [pc |-> "off", text |-> <<>>, pos |-> 0, chunks |-> 0, cut |-> FALSE,
     buffer |-> <<>>, frags |-> <<>>]

BkIdle == [pc |-> "off", n |-> 0, b |-> 0, r |-> <<>>, delay |-> <<>>]

\* the state after the mount of a hook with nothing cached, the quota and the
\* bodies the endpoint may send given
InitOf(q, bodies) ==
    /\ quota = q
    /\ hook \in {"A", "B"}
    /\ endpointBody \in bodies
    /\ maxRetries \in 0..MaxRetriesBound
    /\ messages = <<>>
    /\ isLoading = FALSE
    /\ isStreaming = FALSE
    /\ error = NoError
    /\ retryCount = 0
    /\ retryCountRef = 0
    /\ abortControllerRef = Null
    /\ retryTimeoutRef = Null
    /\ timers = {}
    /\ streamBufferRef = <<>>
    /\ ex = [e \in Exchanges |-> NotStarted]
    /\ sends = 0
    /\ mutations = 0
    /\ dec = DecIdle
    /\ bk = BkIdle
    /\ uncaught = FALSE
    /\ cs = CsIdle
    /\ live = LiveIdle
    /\ localStorage = IF hook = "A" THEN <<>> ELSE saveToCache(<<>>, <<>>).store

\* the same with the bodies of the two scenarios
InitWith(q) == InitOf(q, Bodies)

Init == InitWith(Null)

\* the quotas of the runs with failing writes: the empty list alone fits, or
\* QuotaChars characters fit
Quotas == {<<Len(Stringify("B", <<>>))>>, <<QuotaChars>>}

InitQuota == \E q \in Quotas : InitWith(q)

\* no exchange is waiting for a fetch, a read or a timer that will fire
Quiet == \A e \in Exchanges : ~Active(e)

\* the hooks with a caller that calls sendMessage only when no exchange of an
\* earlier call is still running, and that does not clear, delete or edit
Next ==
    \/ A_Steps
    \/ B_Steps
    \/ \E c \in Contents : Quiet /\ A_SendMessage(c)
    \/ \E c \in Contents : Quiet /\ B_SendMessage(c)

Spec == Init /\ [][Next]_vars

\* an await of exchange e of hook A ends: its fetch or its read completes or
\* rejects, or its pending timer fires
A_Settles(e) ==
    \/ A_Fetch429(e)
    \/ A_FetchHttpError(e)
    \/ A_FetchNetworkError(e)
    \/ A_FetchOk(e)
    \/ A_ReadFails(e)
    \/ A_Aborted(e)
    \/ A_ReadChunk(e)
    \/ A_ReadDone(e)
    \/ A_TimerFires(e)

\* exchange e of hook A waits for a fetch, a read or a timer that was not
\* cleared: the states in which A_Settles(e) is enabled
A_Pending(e) == hook = "A" /\ Active(e)

\* every fetch and every read eventually completes or rejects, and every
\* timer that is pending and not cleared eventually fires
SpecLive == Spec /\ \A e \in Exchanges : WF_vars(A_Settles(e))

\* the hooks with a caller that calls sendMessage at any time
NextOverlap ==
    \/ A_Steps
    \/ B_Steps
    \/ \E c \in Contents : A_SendMessage(c)
    \/ \E c \in Contents : B_SendMessage(c)

SpecOverlap == Init /\ [][NextOverlap]_vars

\* the hooks with a caller that also clears, deletes and edits messages, and
\* calls sendMessage only when no exchange of an earlier call is still running
NextEdit ==
    \/ A_Steps
    \/ B_Steps
    \/ A_Mutations
    \/ B_Mutations
    \/ \E c \in Contents : Quiet /\ A_SendMessage(c)
    \/ \E c \in Contents : Quiet /\ B_SendMessage(c)

SpecEdit == Init /\ [][NextEdit]_vars

\* the same with a storage quota: setItem throws for the longer texts
SpecQuota == InitQuota /\ [][NextEdit]_vars

\* empty and whitespace-only contents
BlankContents == {<<>>, <<" ", NL>>}

\* the hooks with a caller that also calls sendMessage with blank content
NextBlank ==
    \/ Next
    \/ \E c \in BlankContents : Quiet /\ A_SendMessage(c)
    \/ \E c \in BlankContents : Quiet /\ B_SendMessage(c)

SpecBlank == Init /\ [][NextBlank]_vars

\* a data line whose remainder is not JSON
LineNotJson == DataPrefix \o <<"{", "o", "o", "p", "s">>

\* a data line whose remainder is the JSON text null: data.content throws
LineNull == DataPrefix \o <<"n", "u", "l", "l">>

\* a malformed data line between two frames, cut inside the malformed line
BodyMalformedMiddle ==
    <<Frame(TxtHi) \o <<NL>> \o SubSeq(LineNotJson, 1, 8),
      SubSeq(LineNotJson, 9, Len(LineNotJson)) \o <<NL>>,
      Frame(TxtBang) \o <<NL>>>>

\* the malformed line first, then null, then two frames
BodyMalformedFirst ==
    <<LineNotJson \o <<NL>> \o LineNull \o <<NL>>,
      Frame(TxtHi) \o <<NL>> \o Frame(TxtBang) \o <<NL>>>>

\* a frame, then the malformed line as the last line with no final newline
BodyMalformedLast == <<Frame(TxtHi) \o <<NL>>, LineNotJson>>

\* the malformed line alone
BodyMalformedOnly == <<LineNotJson \o <<NL>>>>

\* response bodies that hold a malformed data line
MalformedBodies ==
    {BodyMalformedMiddle, BodyMalformedFirst, BodyMalformedLast,
     BodyMalformedOnly}

InitMalformed == InitOf(Null, MalformedBodies)

\* the hooks of Spec with an endpoint that sends a malformed data line
SpecMalformed == InitMalformed /\ [][Next]_vars

(***************************************************************************)
(* The stream decoder of hook A run alone: one text, cut into chunks at    *)
(* any places. (The texts are ASCII, and TextDecoder with stream: true     *)
(* joins a character cut between two chunks, so cutting bytes and cutting  *)
(* characters give the same texts.) chunks counts the chunks read and cut  *)
(* tells whether a chunk ended inside a line: both are observations.       *)
(***************************************************************************)
\* the text of the body "Hi there!": two frames, each ended by a newline
TextHiThere == Concat(BodyHiThere)

\* one frame ended by a newline
TextOK == Concat(BodyOK)

\* two frames, the last one not ended by a newline
TextNoFinalNewline == Frame(TxtHi) \o <<NL>> \o Frame(TxtBang)

\* two frames separated by an empty line, lines ended by CR LF
TextBlankLine ==
    Frame(TxtOK) \o <<"\r", NL, "\r", NL>> \o Frame(TxtBang) \o <<"\r", NL>>

\* the well-formed texts the decoder is run on
DecTexts == {<<>>, TextOK, TextHiThere, TextNoFinalNewline, TextBlankLine}

\* the other variables while the hooks are not run
HooksIdle ==
    /\ hook = "none"
    /\ endpointBody = <<>>
    /\ maxRetries = 0
    /\ messages = <<>>
    /\ isLoading = FALSE
    /\ isStreaming = FALSE
    /\ error = NoError
    /\ retryCount = 0
    /\ retryCountRef = 0
    /\ abortControllerRef = Null
    /\ retryTimeoutRef = Null
    /\ timers = {}
    /\ streamBufferRef = <<>>
    /\ ex = [e \in Exchanges |-> NotStarted]
    /\ sends = 0
    /\ mutations = 0
    /\ localStorage = <<>>
    /\ quota = Null
    /\ uncaught = FALSE

hookVars ==
    <<hook, endpointBody, maxRetries, messages, isLoading, isStreaming, error,
      retryCount, retryCountRef, abortControllerRef, retryTimeoutRef, timers,
      streamBufferRef, ex, sends, mutations, localStorage, quota, uncaught>>

DecInit ==
    /\ HooksIdle
    /\ cs = CsIdle
    /\ live = LiveIdle
    /\ bk = BkIdle
    /\ \E t \in DecTexts :
          dec = [pc |-> "read", text |-> t, pos |-> 0, chunks |-> 0,
                 cut |-> FALSE, buffer |-> <<>>, frags |-> <<>>]

\* reader.read() resolves with the next n characters of the text
Dec_ReadChunk(n) ==
    /\ dec.pc = "read"
    /\ dec.pos + n <= Len(dec.text)
    /\ LET r == ProcessChunk(dec.buffer, SubSeq(dec.text, dec.pos + 1, dec.pos + n))
       IN  dec' = [dec EXCEPT !.pos = @ + n,
                              !.chunks = @ + 1,
                              !.cut = @ \/ (r.buffer # <<>> /\ dec.pos + n < Len(dec.text)),
                              !.buffer = r.buffer,
                              !.frags = @ \o r.frags]
    /\ UNCHANGED <<hookVars, bk, cs, live>>

\* reader.read() resolves with done: the flush
Dec_ReadDone ==
    /\ dec.pc = "read"
    /\ dec.pos = Len(dec.text)
    /\ dec' = [dec EXCEPT !.pc = "done",
                          !.frags = @ \o FlushBuffer(dec.buffer)]
    /\ UNCHANGED <<hookVars, bk, cs, live>>

\* the longest text: a chunk is 1..MaxTextLen characters
MaxTextLen == Len(TextHiThere)

DecNext ==
    \/ \E n \in 1..MaxTextLen : Dec_ReadChunk(n)
    \/ Dec_ReadDone

SpecDecoder == DecInit /\ [][DecNext]_vars

\* a frame, then a last line with no final newline that is not a data line:
\* six characters and a JSON record
TextEventResidual ==
    Frame(TxtHi) \o <<NL>> \o <<"e", "v", "e", "n", "t", ":">>
                 \o ContentOpen \o TxtBang \o ContentClose

\* the same lines, the last one ended by a newline
TextEventLine == TextEventResidual \o <<NL>>

\* texts whose last line need not be a data line
AnyTexts == {TextNoFinalNewline, TextEventResidual, TextEventLine}

DecInitAny ==
    /\ HooksIdle
    /\ cs = CsIdle
    /\ live = LiveIdle
    /\ bk = BkIdle
    /\ \E t \in AnyTexts :
          dec = [pc |-> "read", text |-> t, pos |-> 0, chunks |-> 0,
                 cut |-> FALSE, buffer |-> <<>>, frags |-> <<>>]

SpecDecoderAny == DecInitAny /\ [][DecNext]_vars

(***************************************************************************)
(* The mount effects of the two hooks and the cache functions of hook B    *)
(* run alone: the hook is mounted over a slot that holds nothing or one of *)
(* the payloads; then, in hook B, saveToCache(s) is called with a sample   *)
(* sequence and loadFromCache() after it. cs.payload remembers what the    *)
(* slot held at mount, cs.state is state.messages after the mount as a     *)
(* parsed value (messages holds it too when it is a message sequence).     *)
(***************************************************************************)
\* content with the characters JSON escapes
TxtEscapes == <<"a", "\"", "b", "\\", "c", NL, "d", "\t", "\r">>

SampleUser == <<Msg(UserId(1), "user", Hello, FALSE, 1)>>

SampleStreaming ==
    <<Msg(UserId(1), "user", TxtEscapes, FALSE, 7),
      Msg(AssistantId(1), "assistant", Concat(BodyOK), TRUE, 12)>>

SampleDone ==
    <<Msg(UserId(2), "user", Hello, FALSE, 305),
      Msg(AssistantId(2), "assistant", TextHiThere, FALSE, 1024)>>

\* the sequences saveToCache is called with
Samples == {<<>>, SampleUser, SampleStreaming, SampleDone}

PayloadNumber == <<"5">>

PayloadObject == <<"{", "}">>

PayloadNotJson == <<"n", "o", "p", "e">>

\* a saved text cut short
PayloadTruncated(h) ==
    SubSeq(Stringify(h, SampleUser), 1, Len(Stringify(h, SampleUser)) - 2)

\* the texts the slot may hold at mount
Payloads(h) ==
    {<<>>, TextNull, PayloadNumber, PayloadObject, PayloadNotJson,
     PayloadTruncated(h), Stringify(h, <<>>), Stringify(h, SampleUser),
     Stringify(h, SampleStreaming)}

CacheInit ==
    /\ hook \in {"A", "B"}
    /\ quota \in {Null, <<QuotaChars>>}
    /\ localStorage \in {<<>>} \cup {<<Raw(t)>> : t \in Payloads(hook)}
    /\ cs = [CsIdle EXCEPT !.pc = "mount", !.payload = getItem(localStorage)]
    /\ live = LiveIdle
    /\ endpointBody = <<>>
    /\ maxRetries = 0
    /\ messages = <<>>
    /\ isLoading = FALSE
    /\ isStreaming = FALSE
    /\ error = NoError
    /\ retryCount = 0
    /\ retryCountRef = 0
    /\ abortControllerRef = Null
    /\ retryTimeoutRef = Null
    /\ timers = {}
    /\ streamBufferRef = <<>>
    /\ ex = [e \in Exchanges |-> NotStarted]
    /\ sends = 0
    /\ mutations = 0
    /\ uncaught = FALSE
    /\ dec = DecIdle
    /\ bk = BkIdle

\* what the cache functions leave alone
cacheFrame ==
    <<hook, endpointBody, maxRetries, isLoading, isStreaming, error,
      retryCount, retryCountRef, abortControllerRef, retryTimeoutRef, timers,
      streamBufferRef, ex, sends, mutations, quota, dec, bk, live>>

\* hook A: the mount effect. Whatever JSON.parse returns becomes
\* state.messages; nothing is written.
A_Mount ==
    /\ hook = "A"
    /\ cs.pc = "mount"
    /\ LET parsedData == A_MountMessages(localStorage)
       IN  /\ cs' = [cs EXCEPT !.pc = "mounted", !.state = parsedData]
           /\ messages' = IF IsMessages(parsedData) THEN MessagesOf(parsedData)
                          ELSE messages
    /\ UNCHANGED <<localStorage, uncaught>>
    /\ UNCHANGED cacheFrame

\* hook B: the two effects of the mount. The first reads
\* cachedMessages.length, which throws for null, and sets state.messages when
\* the length is above 0; the second saves the initial [] and, after the
\* render of the loaded messages, saves these. When the first effect throws,
\* the second may or may not have run. (No payload used here makes the hook
\* set a value that is not a message sequence.)
B_Mount ==
    /\ hook = "B"
    /\ cs.pc = "mount"
    /\ LET cachedMessages == loadFromCache(localStorage)
           length == LengthOf(cachedMessages)
           first == saveToCache(localStorage, <<>>).store
       IN  IF length.throws
           THEN /\ uncaught' = TRUE
                /\ cs' = [cs EXCEPT !.pc = "mounted"]
                /\ messages' = messages
                /\ localStorage' \in {localStorage, first}
           ELSE IF length.defined /\ length.n > 0 /\ IsMessages(cachedMessages)
           THEN /\ uncaught' = uncaught
                /\ cs' = [cs EXCEPT !.pc = "mounted", !.state = cachedMessages]
                /\ messages' = MessagesOf(cachedMessages)
                /\ localStorage' = saveToCache(first, MessagesOf(cachedMessages)).store
           ELSE /\ uncaught' = uncaught
                /\ cs' = [cs EXCEPT !.pc = "mounted"]
                /\ messages' = messages
                /\ localStorage' = first
    /\ UNCHANGED cacheFrame

\* hook B: saveToCache(s) called by the user of the hook
B_SaveToCache(s) ==
    /\ hook = "B"
    /\ cs.pc = "mounted"
    /\ ~uncaught
    /\ localStorage' = saveToCache(localStorage, s).store
    /\ cs' = [cs EXCEPT !.pc = "saved", !.s = s]
    /\ UNCHANGED <<messages, uncaught>>
    /\ UNCHANGED cacheFrame

\* hook B: loadFromCache() called by the user of the hook
B_LoadFromCache ==
    /\ hook = "B"
    /\ cs.pc = "saved"
    /\ cs' = [cs EXCEPT !.pc = "loaded", !.loaded = loadFromCache(localStorage)]
    /\ UNCHANGED <<messages, localStorage, uncaught>>
    /\ UNCHANGED cacheFrame

CacheNext ==
    \/ A_Mount
    \/ B_Mount
    \/ \E s \in Samples : B_SaveToCache(s)
    \/ B_LoadFromCache

SpecCache == CacheInit /\ [][CacheNext]_vars

(***************************************************************************)
(* calculateBackoffDelay of hook A run alone. A JavaScript number is an    *)
(* IEEE 754 binary64: here a finite non-negative one is the record         *)
(* [m |-> mantissa, e |-> exponent] standing for m * 2^e, the mantissa a   *)
(* natural number written as its digits in base 2^DigitBits, least         *)
(* significant first, with no leading zero digit (<<>> is 0). Every        *)
(* multiplication and addition rounds its exact result to Precision        *)
(* significant bits, to nearest, ties to even. The exponent range is not   *)
(* bounded: overflow to Infinity and subnormal numbers are out of reach of *)
(* the base delays and attempt numbers used here.                          *)
(***************************************************************************)
DigitBits == 15

Base == 2 ^ DigitBits

\* significant bits of a binary64
Precision == 53

Min(a, b) == IF a <= b THEN a ELSE b

RECURSIVE Norm(_)
\* x without its leading zero digits
Norm(x) ==
    IF x = <<>> THEN x
    ELSE IF x[Len(x)] = 0 THEN Norm(SubSeq(x, 1, Len(x) - 1)) ELSE x

RECURSIVE NatDigits(_)
\* the digits of the natural number k
NatDigits(k) == IF k = 0 THEN <<>> ELSE <<k % Base>> \o NatDigits(k \div Base)

Digit(x, i) == IF i <= Len(x) THEN x[i] ELSE 0

RECURSIVE AddCarry(_, _, _)
AddCarry(x, y, carry) ==
    IF x = <<>> /\ y = <<>>
    THEN IF carry = 0 THEN <<>> ELSE <<carry>>
    ELSE LET sum == Digit(x, 1) + Digit(y, 1) + carry
         IN  <<sum % Base>> \o
             AddCarry(IF x = <<>> THEN x ELSE Tail(x),
                      IF y = <<>> THEN y ELSE Tail(y), sum \div Base)

\* x + y
Add(x, y) == AddCarry(x, y, 0)

RECURSIVE MulDigit(_, _, _)
\* x * d + carry, for one digit d
MulDigit(x, d, carry) ==
    IF x = <<>>
    THEN IF carry = 0 THEN <<>> ELSE <<carry>>
    ELSE LET prod == Head(x) * d + carry
         IN  <<prod % Base>> \o MulDigit(Tail(x), d, prod \div Base)

RECURSIVE MulDigits(_, _)
MulDigits(x, y) ==
    IF y = <<>> THEN <<>>
    ELSE Add(MulDigit(x, Head(y), 0), <<0>> \o MulDigits(x, Tail(y)))

\* x * y
Mul(x, y) == Norm(MulDigits(x, y))

RECURSIVE LessFrom(_, _, _)
LessFrom(x, y, i) ==
    IF i = 0 THEN FALSE
    ELSE IF x[i] # y[i] THEN x[i] < y[i] ELSE LessFrom(x, y, i - 1)

\* x < y
Less(x, y) ==
    IF Len(x) # Len(y) THEN Len(x) < Len(y) ELSE LessFrom(x, y, Len(x))

\* 2^s
Pow2(s) == [i \in 1..(s \div DigitBits) |-> 0] \o <<2 ^ (s % DigitBits)>>

\* x * 2^s
ShiftLeft(x, s) == Mul(x, Pow2(s))

\* bit k of x, bit 0 the least significant
Bit(x, k) == (Digit(x, k \div DigitBits + 1) \div 2 ^ (k % DigitBits)) % 2

\* the number of bits of x
BitLength(x) ==
    IF x = <<>> THEN 0
    ELSE (Len(x) - 1) * DigitBits +
         CHOOSE k \in 1..DigitBits : 2 ^ (k - 1) <= x[Len(x)] /\ x[Len(x)] < 2 ^ k

\* floor(x / 2^s)
ShiftRight(x, s) ==
    LET q == s \div DigitBits
        r == s % DigitBits
        y == SubSeq(x, q + 1, Len(x))
    IN  Norm([i \in 1..Len(y) |->
                 y[i] \div 2 ^ r + (Digit(y, i + 1) % 2 ^ r) * 2 ^ (DigitBits - r)])

\* m * 2^e rounded to Precision significant bits, to nearest, ties to even
Round(m, e) ==
    LET s == BitLength(m) - Precision
    IN  IF s <= 0 THEN [m |-> m, e |-> e]
        ELSE LET q == ShiftRight(m, s)
                 guard == Bit(m, s - 1) = 1
                 sticky == \E k \in 0..(s - 2) : Bit(m, k) = 1
                 odd == Bit(q, 0) = 1
             IN  [m |-> IF guard /\ (sticky \/ odd) THEN Add(q, <<1>>) ELSE q,
                  e |-> e + s]

\* the binary64 product x * y
FMul(x, y) == Round(Mul(x.m, y.m), x.e + y.e)

\* the binary64 sum x + y
FAdd(x, y) ==
    LET e == Min(x.e, y.e)
    IN  Round(Add(ShiftLeft(x.m, x.e - e), ShiftLeft(y.m, y.e - e)), e)

\* x < y, as real numbers
FLess(x, y) ==
    LET e == Min(x.e, y.e)
    IN  Less(ShiftLeft(x.m, x.e - e), ShiftLeft(y.m, y.e - e))

\* the integer k as a number
Number(k) == [m |-> NatDigits(k), e |-> 0]

\* the literal 0.1: 0x1.999999999999ap-4 = 3602879701896397 * 2^-55
OneTenth == [m |-> <<19661, 6553, 13107, 102>>, e |-> -55]

\* Math.pow(2, retries), which is exact
MathPow2(retries) == [m |-> <<1>>, e |-> retries]

\* with a jitter of up to 100% of the exponential delay
calculateBackoffDelayFullJitter(retries, initialBackoffMs, random) ==
    LET exponentialDelay == FMul(initialBackoffMs, MathPow2(retries))
        jitter == FMul(random, exponentialDelay)
    IN  FAdd(exponentialDelay, jitter)

\* exponentialDelay + Math.random() * exponentialDelay * 0.1
calculateBackoffDelay(retries, initialBackoffMs, random) ==
    LET exponentialDelay == FMul(initialBackoffMs, MathPow2(retries))
        jitter == FMul(FMul(random, exponentialDelay), OneTenth)
    IN  FAdd(exponentialDelay, jitter)

\* the base delays the function is called with, in ms
BaseDelays == {1, 2, 3, 10, 250, 1000, 1500}

\* 1 - j * 2^-Precision, for 1 <= j <= Base
BelowOne(j) ==
    [m |-> <<Base - j, Base - 1, Base - 1, 2 ^ (Precision - 3 * DigitBits) - 1>>,
     e |-> 0 - Precision]

\* the values Math.random() returns: doubles in [0, 1)
Randoms ==
    {[m |-> NatDigits(k), e |-> 0 - RandomBits] : k \in 0..(2 ^ RandomBits - 1)}
        \cup {BelowOne(j) : j \in 1..NearOne}

BkInit ==
    /\ HooksIdle
    /\ cs = CsIdle
    /\ live = LiveIdle
    /\ dec = DecIdle
    /\ \E n \in 0..MaxAttempt, b \in BaseDelays, r \in Randoms :
          bk = [pc |-> "call", n |-> n, b |-> b, r |-> r, delay |-> Number(0)]

\* the call returns
Bk_Return ==
    /\ bk.pc = "call"
    /\ bk' = [bk EXCEPT !.pc = "done",
                        !.delay = calculateBackoffDelay(bk.n, Number(bk.b), bk.r)]
    /\ UNCHANGED <<hookVars, dec, cs, live>>

SpecBackoff == BkInit /\ [][Bk_Return]_vars

(***************************************************************************)
(* getRetryDelay of hook B run alone, in the same arithmetic.              *)
(***************************************************************************)
\* the literal 1000 of the jitter term
JitterMs == Number(1000)

\* initialRetryDelay * Math.pow(2, retryCount) + Math.random() * 1000
getRetryDelay(retries, initialRetryDelay, random) ==
    FAdd(FMul(initialRetryDelay, MathPow2(retries)), FMul(random, JitterMs))

RdInit ==
    /\ HooksIdle
    /\ cs = CsIdle
    /\ live = LiveIdle
    /\ dec = DecIdle
    /\ \E n \in 0..MaxAttempt, b \in BaseDelays, r \in Randoms :
          bk = [pc |-> "call", n |-> n, b |-> b, r |-> r, delay |-> Number(0)]

\* the call returns
Rd_Return ==
    /\ bk.pc = "call"
    /\ bk' = [bk EXCEPT !.pc = "done",
                        !.delay = getRetryDelay(bk.n, Number(bk.b), bk.r)]
    /\ UNCHANGED <<hookVars, dec, cs, live>>

SpecRetryDelay == RdInit /\ [][Rd_Return]_vars

(***************************************************************************)
(* useLiveSession (src/src/hooks/useLiveSession.tsx): connect() and        *)
(* disconnect() are async functions, one process per call, with a position *)
(* at each await. An interval is named by the connect() call that set it.  *)
(* The transcript, the volume levels and isUserSpeaking, which only the    *)
(* volume effect sets to true, are left out.                               *)
(***************************************************************************)
\* stopAnalyser(): the tracks stopped, the context closed, the refs nulled
stopAnalyser(l) ==
    [l EXCEPT !.micStreamRef = Null,
              !.audioCtxRef = Null,
              !.closed = IF l.audioCtxRef # Null
                         THEN @ \cup {l.audioCtxRef[1]} ELSE @,
              !.analyserRef = Null]

\* if (pollRef.current) window.clearInterval(pollRef.current)
ClearPolling(l) ==
    IF l.pollRef # Null
    THEN [l EXCEPT !.intervals = @ \ {l.pollRef[1]}]
    ELSE l

\* the rest of connect() after startAnalyser(): setStatus('connected'), the
\* earlier interval cleared, a new one set, the call returns
StartPolling(l, c) ==
    [ClearPolling(l) EXCEPT !.status = "connected",
                            !.intervals = @ \cup {c},
                            !.pollRef = <<c>>,
                            !.conn[c] = "done"]

\* connect() is called: setStatus('connecting'), the fetch issued
L_Connect(c) ==
    /\ live.conn[c] = "idle"
    /\ \A b \in Connects : b < c => live.conn[b] # "idle"
    /\ live' = [live EXCEPT !.status = "connecting", !.conn[c] = "fetch"]
    /\ UNCHANGED <<hookVars, dec, bk, cs>>

\* the connect request answers 2xx: startAnalyser() creates the context and
\* asks for the microphone
L_ConnectFetchOk(c) ==
    /\ live.conn[c] = "fetch"
    /\ live' = [live EXCEPT !.audioCtxRef = <<c>>, !.conn[c] = "mic"]
    /\ UNCHANGED <<hookVars, dec, bk, cs>>

\* the connect request fails or answers not ok: the catch block
L_ConnectFetchFails(c) ==
    /\ live.conn[c] = "fetch"
    /\ live' = [live EXCEPT !.errorMsg = "connect failed",
                            !.status = "error",
                            !.conn[c] = "done"]
    /\ UNCHANGED <<hookVars, dec, bk, cs>>

\* getUserMedia resolves: the stream kept, the analyser built on the context
\* of this call; on a context closed meanwhile createMediaStreamSource may
\* throw, which startAnalyser catches. Then the rest of connect().
L_MicGranted(c) ==
    /\ live.conn[c] = "mic"
    /\ \E built \in IF c \in live.closed THEN {TRUE, FALSE} ELSE {TRUE} :
          live' = StartPolling(
                      IF built
                      THEN [live EXCEPT !.micStreamRef = <<c>>,
                                        !.analyserRef = <<c>>]
                      ELSE [live EXCEPT !.micStreamRef = <<c>>,
                                        !.errorMsg = "microphone"],
                      c)
    /\ UNCHANGED <<hookVars, dec, bk, cs>>

\* getUserMedia rejects: startAnalyser catches it and sets errorMsg; connect()
\* goes on as after a granted microphone
L_MicDenied(c) ==
    /\ live.conn[c] = "mic"
    /\ live' = StartPolling([live EXCEPT !.errorMsg = "microphone"], c)
    /\ UNCHANGED <<hookVars, dec, bk, cs>>

\* disconnect() is called: the fetch issued
L_Disconnect(d) ==
    /\ live.disc[d] = "idle"
    /\ \A b \in Disconnects : b < d => live.disc[b] # "idle"
    /\ live' = [live EXCEPT !.disc[d] = "fetch"]
    /\ UNCHANGED <<hookVars, dec, bk, cs>>

\* the disconnect request settles, resolved or rejected: the finally block
L_DisconnectSettles(d) ==
    /\ live.disc[d] = "fetch"
    /\ live' = [stopAnalyser(ClearPolling(live)) EXCEPT
                    !.pollRef = Null,
                    !.status = "disconnected",
                    !.isAiSpeaking = FALSE,
                    !.disc[d] = "done"]
    /\ UNCHANGED <<hookVars, dec, bk, cs>>

\* an active interval fires: the callback fetches the messages
L_PollFires(i) ==
    /\ i \in live.intervals
    /\ live.polls < MaxPolls
    /\ live' = [live EXCEPT !.polls = @ + 1]
    /\ UNCHANGED <<hookVars, dec, bk, cs>>

\* the message list ends with the model message of id m
L_PollAnswers(m) ==
    /\ live.polls > 0
    /\ live' = IF m # live.lastModelMessageId
               THEN [live EXCEPT !.polls = @ - 1,
                                 !.lastModelMessageId = m,
                                 !.isAiSpeaking = TRUE,
                                 !.timeouts = 1]
               ELSE [live EXCEPT !.polls = @ - 1]
    /\ UNCHANGED <<hookVars, dec, bk, cs>>

\* the timeout set by the poll callback fires: setIsAiSpeaking(false).
\* (Several timeouts pending are kept as one: they all set the same value.)
L_SpeakingTimeout ==
    /\ live.timeouts = 1
    /\ live' = [live EXCEPT !.timeouts = 0, !.isAiSpeaking = FALSE]
    /\ UNCHANGED <<hookVars, dec, bk, cs>>

LsInit ==
    /\ HooksIdle
    /\ cs = CsIdle
    /\ live = LiveIdle
    /\ dec = DecIdle
    /\ bk = BkIdle

LsNext ==
    \/ \E c \in Connects : L_Connect(c)
    \/ \E c \in Connects : L_ConnectFetchOk(c)
    \/ \E c \in Connects : L_ConnectFetchFails(c)
    \/ \E c \in Connects : L_MicGranted(c)
    \/ \E c \in Connects : L_MicDenied(c)
    \/ \E d \in Disconnects : L_Disconnect(d)
    \/ \E d \in Disconnects : L_DisconnectSettles(d)
    \/ \E i \in Connects : L_PollFires(i)
    \/ \E m \in 1..MaxMessageId : L_PollAnswers(m)
    \/ L_SpeakingTimeout

SpecSession == LsInit /\ [][LsNext]_vars

(***************************************************************************)
(* Properties.                                                             *)
(***************************************************************************)
\* the retry count a hook exposes: state.retryCount, getRetryCount()
ExposedRetryCount == IF hook = "A" THEN retryCount ELSE retryCountRef

\* the assistant messages of exchange e in the message list
AssistantMessages(e) ==
    {i \in 1..Len(messages) : messages[i].id = AssistantId(e)}

\* C1 (hook B): once cancelRequest() was called while sendMessage waited in a
\* retry backoff, the exchange issues no further fetch, and isLoading,
\* isStreaming stay false and error null until the next sendMessage.
C1_CancelInBackoffStopsB ==
    hook = "B" =>
        \A e \in Exchanges :
            ex[e].cib >= 0 =>
                /\ ex[e].fetches = ex[e].cib
                /\ sends = e =>
                      ~isLoading /\ ~isStreaming /\ error = NoError

\* C2 (hook A): once cancelRequest() was called while attemptRequest waited in
\* the 429 backoff timer of an exchange that ran alone, the exchange issues no
\* further fetch (it stays in its wait), and isLoading is false and error is
\* null until the next sendMessage.
C2_CancelInBackoffStopsA ==
    hook = "A" =>
        \A e \in Exchanges :
            (ex[e].cib >= 0 /\ ex[e].alone) =>
                /\ ex[e].fetches = ex[e].cib
                /\ ex[e].pc = "backoff"
                /\ sends = e => (~isLoading /\ error = NoError)

\* C2 witness: hook A was cancelled in the backoff after its second 429
C2_Witness ==
    /\ hook = "A"
    /\ \E e \in Exchanges :
          /\ ex[e].cib = 2
          /\ ex[e].alone
          /\ ex[e].pc = "backoff"
          /\ TimerOf(e) \notin timers

\* C3 (both hooks): an exchange never issues more than maxRetries + 1 fetches;
\* one whose every response was a 429, with no cancel, ends after exactly
\* maxRetries + 1 fetches, with a session error set and isLoading false (as
\* long as no other sendMessage call ran during it or after it).
C3_All429Exhausts ==
    \A e \in Exchanges :
        /\ ex[e].fetches <= maxRetries + 1
        /\ (ex[e].all429 /\ ex[e].pc = "done") =>
              /\ ex[e].fetches = maxRetries + 1
              /\ (sends = e /\ ex[e].alone) => (error # NoError /\ ~isLoading)

\* C3 witness: hook A ended an exchange with maxRetries = 2 after three 429s
C3_Witness ==
    /\ hook = "A"
    /\ maxRetries = 2
    /\ \E e \in Exchanges :
          ex[e].all429 /\ ex[e].pc = "done" /\ ex[e].fetches = 3

\* C4 (both hooks): at most one exchange is in flight at any time (a new
\* sendMessage cancels the exchange still running).
C4_AtMostOneExchange ==
    Cardinality({e \in Exchanges : Active(e)}) <= 1

\* C5 (hook B): state.isStreaming is true iff exactly one message has
\* isStreaming = true, and that message is the last of messages.
C5_StreamingFlag ==
    hook = "B" =>
        LET streaming == {i \in 1..Len(messages) : messages[i].isStreaming}
        IN  isStreaming <=> (Cardinality(streaming) = 1 /\ Len(messages) \in streaming)

\* C6 (decoder of hook A): however the text of a well-formed frame sequence
\* is cut into chunks, the fragments decoded, in order, are those decoded
\* from the whole text given as one chunk.
C6_SplitInvariant ==
    dec.pc = "done" => dec.frags = DecodeFrom(<<>>, <<dec.text>>)

\* C6 witness: the text of "Hi there!" was decoded from three chunks or more,
\* one of them ending inside a line
C6_Witness ==
    /\ dec.pc = "done"
    /\ dec.text = TextHiThere
    /\ dec.chunks >= 3
    /\ dec.cut
    /\ dec.frags = <<TxtHi \o TxtThere, TxtBang>>

\* C7 (both hooks): an exchange whose first response is a non-2xx status other
\* than 429 ends at once: one fetch, no backoff wait, a session error set and
\* isLoading false.
C7_HttpErrorTerminal ==
    \A e \in Exchanges :
        ex[e].scr = 1 =>
            /\ ex[e].pc = "done"
            /\ ex[e].fetches = 1
            /\ sends = e => (error # NoError /\ ~isLoading)

\* C8 (both hooks): with maxRetries = 2, an exchange answered HTTP 500, then
\* HTTP 200 with the one frame "OK", ends with exactly one assistant message
\* of its own, with content "OK", retry count 0 and error null.
C8_Scenario500Then200 ==
    maxRetries = 2 =>
        \A e \in Exchanges :
            (ex[e].pc = "done" /\ ex[e].scr \in {1, 3} /\ sends = e) =>
                /\ Cardinality(AssistantMessages(e)) = 1
                /\ \A i \in AssistantMessages(e) : messages[i].content = TxtOK
                /\ ExposedRetryCount = 0
                /\ error = NoError

\* C9 (both hooks): a network failure of fetch or of a stream read in an
\* attempt that has retries left is retried; it ends no exchange and sets no
\* session error.
C9_NetworkFailureRetried ==
    \A e \in Exchanges :
        (ex[e].pc = "done" /\ sends = e /\ error = "network") =>
            ex[e].attempt = maxRetries

\* the exact value b * 2^n of a call's exponential delay, and k times x
ExactExponential == [m |-> NatDigits(bk.b), e |-> bk.n]

Times(k, x) == [m |-> Mul(NatDigits(k), x.m), e |-> x.e]

C11_RetryDelayJitter ==
    bk.pc = "done" =>
        /\ ~FLess(bk.delay, ExactExponential)
        /\ ~FLess(Times(11, ExactExponential), Times(10, bk.delay))

\* cancelRequest() is called while exchange e waits for a fetch or a read
CancelsPending(e) ==
    /\ ex[e].pc \in {"fetch", "read"}
    /\ ~ex[e].aborted
    /\ ex'[e].aborted

\* exchange e, cancelled while it waited for a fetch or a read, has not yet
\* unwound
CancelPending(e) == ex[e].pc \in {"fetch", "read"} /\ ex[e].aborted

\* C12 (both hooks, one exchange at a time): the cancelRequest() that finds the
\* exchange waiting for a fetch or a read, and every step from there until the
\* exchange has unwound, leave messages and error as they were, issue no fetch
\* and leave isLoading and isStreaming false.
C12_CancelFrame ==
    [][\A e \in Exchanges :
          (CancelsPending(e) \/ CancelPending(e)) =>
              /\ messages' = messages
              /\ error' = error
              /\ retryCount' = retryCount
              /\ ex'[e].fetches = ex[e].fetches
              /\ ~isLoading'
              /\ ~isStreaming']_vars

\* C12 witness: an exchange cancelled during a read, after content had
\* arrived, has unwound
C12_Witness ==
    \E e \in Exchanges :
        /\ ex[e].pc = "done"
        /\ ex[e].aborted
        /\ ex[e].acc # <<>>
        /\ ex[e].body # <<>>
        /\ ~isLoading
        /\ error = NoError

\* C13 (both hooks): a sendMessage with empty or whitespace-only content
\* appends no message and starts no exchange: every user message has content
\* that is not blank, and every exchange started has one.
C13_BlankIsNoOp ==
    /\ \A i \in 1..Len(messages) :
          messages[i].role = "user" => Trim(messages[i].content) # <<>>
    /\ \A e \in Exchanges :
          ex[e].pc \notin {"idle", "retired"} =>
              \E i \in 1..Len(messages) :
                  /\ messages[i].id = UserId(e)
                  /\ Trim(messages[i].content) # <<>>

\* C14 (hook B, one exchange at a time): every update of an assistant
\* message's content appends to it: the content before the step is a prefix
\* of the content after it.
C14_ContentOnlyGrows ==
    [][hook = "B" =>
          \A i \in 1..Len(messages) :
              (i <= Len(messages') /\ messages[i].role = "assistant") =>
                  StartsWith(messages'[i].content, messages[i].content)]_vars

\* C15 (both hooks, one exchange at a time): an exchange that ended with an
\* error after content had arrived from the stream leaves an assistant
\* message holding that content, with isLoading false.
C15_PartialContentKept ==
    \A e \in Exchanges :
        (/\ ex[e].pc = "done"
         /\ sends = e
         /\ ~ex[e].aborted
         /\ error # NoError
         /\ ex[e].acc # <<>>) =>
            /\ \E i \in AssistantMessages(e) : messages[i].content = ex[e].acc
            /\ ~isLoading

\* C16 (both hooks, one exchange at a time): an exchange whose first response
\* is a 200 with the three chunks of the body "Hi there!", read to its end,
\* leaves exactly one assistant message of its own, not streaming, with the
\* content "Hi there!".
C16_ScenarioHiThere ==
    \A e \in Exchanges :
        (/\ endpointBody = BodyHiThere
         /\ ex[e].pc = "done"
         /\ ex[e].fetches = 1
         /\ ex[e].body = <<>>
         /\ ~ex[e].aborted
         /\ error = NoError
         /\ sends = e) =>
            /\ Cardinality(AssistantMessages(e)) = 1
            /\ \A i \in AssistantMessages(e) :
                  /\ messages[i].content = TxtHi \o TxtThere \o TxtBang
                  /\ ~messages[i].isStreaming

\* C17 (hook B): the step of a sendMessage that starts an exchange appends to
\* the messages, as they were, a user message that is not streaming and has
\* content that is not blank, then the exchange's assistant placeholder, empty
\* and streaming, and sets isLoading and isStreaming; after every step the two
\* messages of each exchange that are present are next to each other.
C17_SendAppendsPair ==
    [][hook = "B" =>
          /\ sends' # sends =>
                LET e == sends'
                    n == Len(messages)
                IN  /\ e = sends + 1
                    /\ Len(messages') = n + 2
                    /\ SubSeq(messages', 1, n) = messages
                    /\ messages'[n + 1].id = UserId(e)
                    /\ messages'[n + 1].role = "user"
                    /\ Trim(messages'[n + 1].content) # <<>>
                    /\ ~messages'[n + 1].isStreaming
                    /\ messages'[n + 2] = Msg(AssistantId(e), "assistant", <<>>, TRUE, DateNow')
                    /\ isLoading'
                    /\ isStreaming'
          /\ \A i \in 1..Len(messages') :
                messages'[i].role = "user" =>
                    /\ i < Len(messages')
                    /\ messages'[i + 1].id = <<"a", messages'[i].id[2]>>]_vars

\* C17 witness: a second sendMessage has just started its exchange
C17_Witness ==
    /\ hook = "B"
    /\ sends = 2
    /\ ex[2].pc = "fetch"
    /\ ex[2].attempt = 0
    /\ Len(messages) = 4
    /\ messages[3].id = UserId(2)
    /\ messages[4] = Msg(AssistantId(2), "assistant", <<>>, TRUE, DateNow)
    /\ isLoading
    /\ isStreaming

\* C18 (both hooks, one exchange at a time): once the response stream of an
\* exchange has ended successfully, isLoading is false, error is null and the
\* retry count is 0; in hook B isStreaming is false and the exchange's
\* assistant message is not streaming.
C18_CompletionState ==
    \A e \in Exchanges :
        (ex[e].ok /\ sends = e) =>
            /\ ~isLoading
            /\ error = NoError
            /\ ExposedRetryCount = 0
            /\ hook = "B" =>
                  /\ ~isStreaming
                  /\ \A i \in AssistantMessages(e) : ~messages[i].isStreaming

\* C18 witness: in hook B a stream ended successfully on a retry, with content
C18_Witness ==
    \E e \in Exchanges :
        /\ hook = "B"
        /\ ex[e].ok
        /\ sends = e
        /\ ex[e].attempt >= 1
        /\ \E i \in AssistantMessages(e) : messages[i].content # <<>>

\* C19 (both hooks, one exchange at a time): once a cancelled exchange has
\* unwound, or was cancelled in its backoff, the exposed retry count is 0.
C19_CancelResetsRetryCount ==
    \A e \in Exchanges :
        (/\ sends = e
         /\ \/ ex[e].pc = "done" /\ ex[e].aborted
            \/ ex[e].cib >= 0) =>
            ExposedRetryCount = 0

\* cancelRequest() of the hook that runs
CancelRequest == A_CancelRequest \/ B_CancelRequest

\* cancelRequest() called in this state would leave every variable as it is
CancelChangesNothing == ENABLED (CancelRequest /\ UNCHANGED vars)

\* C20 (both hooks, one exchange at a time): a cancelRequest() leads to a state
\* in which another cancelRequest() changes nothing; called while no exchange
\* is active it leaves messages, error, isLoading and isStreaming as they
\* were, and starts no fetch.
C20_CancelIdempotent ==
    [][CancelRequest =>
          /\ CancelChangesNothing'
          /\ Quiet =>
                /\ messages' = messages
                /\ error' = error
                /\ isLoading' = isLoading
                /\ isStreaming' = isStreaming
                /\ \A e \in Exchanges :
                      /\ ex'[e].fetches = ex[e].fetches
                      /\ ex'[e].pc = ex[e].pc]_vars

\* C20 witness: cancelRequest() was called during a fetch or a read, after a
\* retry, and calling it again would change nothing
C20_Witness ==
    \E e \in Exchanges :
        /\ CancelPending(e)
        /\ ex[e].attempt >= 1
        /\ CancelChangesNothing

\* C25 (both hooks): the step of a sendMessage that starts an exchange leaves
\* error null, and so does the step in which a response stream ends
\* successfully.
C25_ErrorCleared ==
    [][/\ sends' # sends => error' = NoError
       /\ \A e \in Exchanges : (~ex[e].ok /\ ex'[e].ok) => error' = NoError]_vars

\* C25 witness: an exchange was started while error was set, and error is null
C25_Witness ==
    \E e \in Exchanges :
        /\ ex[e].hadError
        /\ ex[e].pc = "fetch"
        /\ ex[e].fetches = 1
        /\ error = NoError

UserMessages(e) ==
    {i \in 1..Len(messages) : messages[i].id = UserId(e)}

\* C27 (both hooks): every sendMessage call made so far has exactly one user
\* message and at most one assistant message in the list, however many
\* attempts its exchange made; the list holds nothing else.
C27_OnePairPerSend ==
    /\ \A e \in 1..sends : /\ Cardinality(UserMessages(e)) = 1
                           /\ Cardinality(AssistantMessages(e)) <= 1
    /\ \A i \in 1..Len(messages) :
          \E e \in 1..sends : messages[i].id \in {UserId(e), AssistantId(e)}

\* C27 witness: an exchange that succeeded after at least one retry, with its
\* user message and its single assistant message in the list
C27_Witness ==
    \E e \in Exchanges :
        /\ ex[e].ok
        /\ ex[e].attempt >= 1
        /\ ex[e].fetches >= 2
        /\ Cardinality(UserMessages(e)) = 1
        /\ Cardinality(AssistantMessages(e)) = 1

\* C30 (hook A): at the end of the stream the residual buffer is treated as a
\* complete line is: the fragments of a text are those of its lines, the
\* last, unterminated one included, each giving a fragment only if it begins
\* with "data: " and parses to a record with non-empty content.
C30_ResidualValidated ==
    dec.pc = "done" => dec.frags = LinesFragments(Split(dec.text, NL))

\* the positions of the messages of a given id
WithId(msgs, id) == {i \in 1..Len(msgs) : msgs[i].id = id}

\* C26 (hook B): deleteMessage(id) leaves the messages of any other id, in
\* their order, and nothing else; editMessage(id, c) keeps the length and
\* changes, in each message of that id, the content to c and the timestamp to
\* the current time, and no other field or message. Both leave isLoading,
\* isStreaming and error as they were, and an id no message has leaves the
\* messages as they were.
C26_DeleteEditFrame ==
    [][/\ \A id \in MessageIds :
             B_DeleteMessage(id) =>
                 /\ messages' = SelectSeq(messages, LAMBDA m : m.id # id)
                 /\ WithId(messages, id) = {} => messages' = messages
                 /\ <<isLoading, isStreaming, error>>' = <<isLoading, isStreaming, error>>
       /\ \A id \in MessageIds, c \in Edits :
             B_EditMessage(id, c) =>
                 /\ Len(messages') = Len(messages)
                 /\ \A i \in 1..Len(messages) :
                       IF messages[i].id = id
                       THEN /\ messages'[i].content = c
                            /\ messages'[i].timestamp = DateNow'
                            /\ messages'[i].id = id
                            /\ messages'[i].role = messages[i].role
                            /\ messages'[i].isStreaming = messages[i].isStreaming
                       ELSE messages'[i] = messages[i]
                 /\ WithId(messages, id) = {} => messages' = messages
                 /\ <<isLoading, isStreaming, error>>' = <<isLoading, isStreaming, error>>]_vars

\* C26 witness: the user message of a finished exchange was edited, the
\* assistant message next to it was not
C26_Witness ==
    /\ hook = "B"
    /\ mutations = 1
    /\ Len(messages) = 2
    /\ messages[1].id = UserId(1)
    /\ messages[1].content \in Edits
    /\ messages[1].timestamp = 2
    /\ messages[2].id = AssistantId(1)
    /\ messages[2].timestamp = 1
    /\ messages[2].content # <<>>

\* C28 (hook B): a step in which a chunk of the response stream is received
\* writes nothing to the cache slot.
C28_NoWritePerChunk ==
    [][\A e \in Exchanges : B_ReadChunk(e) => getItem(localStorage') = getItem(localStorage)]_vars

\* what a mount of the hook would load from a slot: state.messages as a
\* parsed value
Load(h, store) == IF h = "A" THEN A_MountMessages(store) ELSE loadFromCache(store)

\* C24 (both hooks): after clearChat / clearMessages the messages are empty
\* and a load from the cache slot yields the empty sequence.
C24_ClearEmptiesCache ==
    [][(A_ClearChat \/ B_ClearMessages) =>
          /\ messages' = <<>>
          /\ Load(hook, localStorage') = JArr(<<>>)]_vars

\* C24 witness: the messages of an exchange were cleared, and so was the slot
C24_Witness ==
    /\ mutations = 1
    /\ sends >= 1
    /\ ex[1].fetches >= 1
    /\ messages = <<>>
    /\ getItem(localStorage) = <<Stringify(hook, <<>>)>>

\* C29 (both hooks, cache writes succeeding): the slot holds the
\* serialization of the current messages, or nothing while hook A has not
\* changed its empty messages, so a load restores exactly the messages.
C29_CacheFollowsMessages ==
    /\ ~uncaught
    /\ IF localStorage = <<>> THEN hook = "A" /\ messages = <<>>
       ELSE getItem(localStorage)[1] = Stringify(hook, messages)
    /\ IsMessages(Load(hook, localStorage))
    /\ MessagesOf(Load(hook, localStorage)) = messages

\* C29 witness: an exchange is over, its user message was edited, and the
\* slot holds the two messages as they are now
C29_Witness ==
    /\ hook = "B"
    /\ ex[1].ok
    /\ mutations = 1
    /\ Len(messages) = 2
    /\ messages[1].content \in Edits
    /\ messages[2].content # <<>>
    /\ getItem(localStorage) = <<Stringify("B", messages)>>
    /\ MessagesOf(JsonParse(getItem(localStorage)[1]).v) = messages

\* the step changes the messages, or is a clear, delete or edit, and the text
\* of the new messages is longer than the quota: its setItem throws
WriteFails ==
    /\ messages' # messages \/ mutations' # mutations
    /\ SetItemThrows(Stringify(hook, messages'))

\* C23 (both hooks): a step whose cache write fails lets no exception out and
\* writes nothing; it changes error only the way the operation itself does
\* (to null, or to the failure that ends an exchange); a sendMessage still
\* appends its messages and starts loading, a clear still empties the
\* messages, and a delete or an edit still changes them as C26 says.
C23_WriteFailureIgnored ==
    [][WriteFails =>
          /\ ~uncaught'
          /\ getItem(localStorage') \in {getItem(localStorage), <<>>}
          /\ error' # error =>
                \/ error' = NoError
                \/ \E e \in Exchanges :
                      ex[e].pc # "done" /\ ex'[e].pc = "done" /\ ~ex'[e].ok
          /\ sends' # sends =>
                LET n == Len(messages)
                IN  /\ Len(messages') = IF hook = "A" THEN n + 1 ELSE n + 2
                    /\ SubSeq(messages', 1, n) = messages
                    /\ \E c \in Contents :
                          messages'[n + 1] =
                              Msg(UserId(sends'), "user", c, FALSE, DateNow')
                    /\ isLoading'
                    /\ error' = NoError
          /\ (A_ClearChat \/ B_ClearMessages) => messages' = <<>>
          /\ \A id \in MessageIds :
                B_DeleteMessage(id) =>
                    messages' = SelectSeq(messages, LAMBDA m : m.id # id)
          /\ \A id \in MessageIds, c \in Edits :
                B_EditMessage(id, c) =>
                    \A i \in WithId(messages, id) : messages'[i].content = c]_vars

\* C23 witness: an exchange ran to its successful end although the slot
\* could not take its messages
C23_Witness ==
    /\ ~uncaught
    /\ quota # Null
    /\ ex[1].ok
    /\ Len(messages) = 2
    /\ messages[2].content # <<>>
    /\ SetItemThrows(Stringify(hook, messages))
    /\ getItem(localStorage) # <<Stringify(hook, messages)>>
    /\ ~isLoading
    /\ error = NoError

\* the slot held nothing, a text that is not JSON, or JSON that is not a
\* sequence of messages
Corrupt(payload) ==
    \/ payload = <<>>
    \/ ~JsonParse(payload[1]).ok
    \/ ~IsMessages(JsonParse(payload[1]).v)

\* C21 (both hooks): after a mount over an absent or corrupt slot the hook
\* holds the empty message sequence and no exception was left uncaught.
C21_MountNeverFails ==
    (cs.pc \in {"mounted", "saved", "loaded"} /\ Corrupt(cs.payload)) =>
        /\ ~uncaught
        /\ cs.state.t = "arr"
        /\ cs.state.v = <<>>

\* the value loadFromCache() returned is the sequence given to saveToCache
LoadedIsSaved ==
    /\ IsMessages(cs.loaded)
    /\ MessagesOf(cs.loaded) = cs.s

FrameTexts == {TxtOK, TxtHi, TxtThere, TxtBang}

\* the content of a line that is a well-formed frame, nothing for another line
FrameContent(line) ==
    IF \E c \in FrameTexts : line = Frame(c)
    THEN CHOOSE c \in FrameTexts : line = Frame(c)
    ELSE <<>>

RECURSIVE FramesContent(_)
\* the contents of the well-formed frames among the lines, in order
FramesContent(lines) ==
    IF lines = <<>> THEN <<>>
    ELSE FrameContent(Head(lines)) \o FramesContent(Tail(lines))

\* what the well-formed frames of a body carry, in order
WellFormedContent(body) == FramesContent(Split(Concat(body), NL))

\* C31 (hook A): over a stream that holds a data line whose remainder does not
\* parse, a chunk leaves error and isLoading alone and the exchange goes on
\* reading; at the end of the stream the assistant content is what the
\* well-formed frames carry, in order, and error is null.
C31_MalformedLineDropped ==
    [][\A e \in Exchanges :
          hook = "A" =>
              /\ A_ReadChunk(e) =>
                    /\ error' = error
                    /\ isLoading' = isLoading
                    /\ ex'[e].pc = "read"
              /\ A_ReadDone(e) =>
                    /\ error' = NoError
                    /\ ex'[e].acc = WellFormedContent(endpointBody)
                    /\ ex'[e].acc # <<>> =>
                          messages' =
                              Append(messages,
                                     Msg(AssistantId(e), "assistant",
                                         WellFormedContent(endpointBody), FALSE,
                                         DateNow))]_vars

\* C31 witness: the malformed line came between two frames, cut between two
\* chunks, and the assistant message holds the contents of both frames
C31_Witness ==
    /\ hook = "A"
    /\ endpointBody = BodyMalformedMiddle
    /\ ex[1].ok
    /\ error = NoError
    /\ Len(messages) = 2
    /\ messages[2].content = TxtHi \o TxtBang

\* C32 (hook A): every sendMessage call eventually returns: an exchange that
\* waits for its fetch eventually is done.
C32_SendReturns ==
    \A e \in Exchanges : (hook = "A" /\ ex[e].pc = "fetch") ~> (ex[e].pc = "done")

\* exchange e will issue no fetch, read no chunk and change no message: it
\* has returned or waits for a cleared timer, or the fetch or read it waits
\* for rejects with an AbortError, after which it returns
WillStop(e) ==
    \/ ~Active(e)
    \/ ex[e].pc \in {"fetch", "read"} /\ ex[e].aborted

\* C33 (both hooks): a cancelRequest() called while the exchanges of two
\* overlapping sendMessage calls are in flight stops both of them.
C33_CancelStopsOverlapping ==
    [][(CancelRequest /\ Cardinality({e \in Exchanges : Active(e)}) = 2) =>
          \A e \in Exchanges : WillStop(e)']_vars

\* C34 (hook A, sendMessage called at any time): the assistant content an
\* exchange ends with is what the decoder gives for its own response chunks
\* from an empty buffer.
C34_ContentOfOwnStream ==
    [][\A e \in Exchanges :
          (hook = "A" /\ A_ReadDone(e)) =>
              ex'[e].acc = Concat(DecodeFrom(<<>>, endpointBody))]_vars

\* exchange e is in flight and was not cancelled: it waits for a fetch or a
\* read whose signal was not aborted, or for a timer that was not cleared
InFlight(e) == Active(e) /\ ~ex[e].aborted

\* C35 (hook A): isLoading is true whenever an exchange that was not
\* cancelled is in flight.
C35_LoadingWhileInFlight ==
    (hook = "A" /\ \E e \in Exchanges : InFlight(e)) => isLoading

\* C36 (hook A): once clearChat() has emptied the messages, every step that
\* is not a sendMessage call leaves them empty and leaves the cache slot as
\* it is. (addMessage and updateMessages are not called in the model.)
C36_ClearedStaysEmpty ==
    [][(hook = "A" /\ mutations >= 1 /\ messages = <<>> /\ sends' = sends) =>
          /\ messages' = <<>>
          /\ getItem(localStorage') = getItem(localStorage)]_vars

\* the sendMessage call made last has returned after a success or a terminal
\* error, not after an abort
LastEnded == sends >= 1 /\ ex[sends].pc = "done" /\ ~ex[sends].aborted

\* C37 (hook A): retryCount is within 0..maxRetries, and it is 0
\* while no sendMessage call was made and when the call made last ended by
\* success or by a terminal error.
C37_RetryCountRange ==
    hook = "A" =>
        /\ retryCount \in 0..maxRetries
        /\ (sends = 0 \/ LastEnded) => retryCount = 0

\* C38 (hook A): an exchange whose 2xx response was read to the end appends
\* exactly one assistant message, its own, whatever content the frames carry.
C38_OneAssistantMessage ==
    [][\A e \in Exchanges :
          (hook = "A" /\ A_ReadDone(e)) =>
              /\ Len(messages') = Len(messages) + 1
              /\ messages'[Len(messages')].role = "assistant"
              /\ messages'[Len(messages')].id = AssistantId(e)
              /\ SubSeq(messages', 1, Len(messages)) = messages]_vars

\* the session is off: status is 'disconnected' and no polling interval is
\* active
SessionOff(l) == l.status = "disconnected" /\ l.intervals = {}

\* this step is a connect() call
ConnectCalled ==
    \E c \in Connects : live.conn[c] = "idle" /\ live'.conn[c] # "idle"

\* C39 (useLiveSession): once a disconnect() has completed, status stays
\* 'disconnected' and no polling interval is active until connect() is
\* called again, whatever an earlier connect() still awaiting does; and at
\* most one polling interval is active at any time.
C39_DisconnectedUntilConnect ==
    /\ [][((\E d \in Disconnects : live.disc[d] = "done")
             /\ SessionOff(live) /\ ~ConnectCalled) => SessionOff(live')]_vars
    /\ [](Cardinality(live.intervals) <= 1)

=============================================================================
